---- MODULE Spec2Model ----
(***************************************************************************)
(* Model of the combustion-and-draft calculation engine:                   *)
(*   src/chimney_calculator.py   (class ChimneyCalculator)                 *)
(*   src/enhanced_calculator.py  (class EnhancedChimneyCalculator)         *)
(*                                                                         *)
(* The engine computes with Python floats (IEEE-754 binary64): every       *)
(* arithmetic operation rounds its result to a fixed number of significant *)
(* digits.  The model keeps that behaviour in a smaller format: a number   *)
(* is a record [m, e] meaning m * 10^e, the mantissa m holding exactly     *)
(* Digits decimal digits (or 0), and every operation rounds its exact      *)
(* result to the nearest such number, ties to even.  All intermediate      *)
(* integers stay below 2^31.                                               *)
(*                                                                         *)
(* A Python local variable is bound with Bind(value, LAMBDA name : rest),  *)
(* which evaluates value once, as the assignment does.                     *)
(***************************************************************************)
EXTENDS Integers, Sequences, FiniteSets, TLC

Bind(v, F(_)) == F(v)

\* ------------------------------------------------------------------------
\* Floating point
\* ------------------------------------------------------------------------

Digits == 6

BD == 10 ^ Digits

BD1 == 10 ^ (Digits - 1)

Zero == [m |-> 0, e |-> 0]

Abs(n) == IF n < 0 THEN 0 - n ELSE n

Sgn(n) == IF n < 0 THEN 0 - 1 ELSE 1

RECURSIVE NumDigits(_)
NumDigits(n) == IF n < 10 THEN 1 ELSE 1 + NumDigits(n \div 10)

\* q + r/d rounded to the nearest integer, ties to even (0 <= r < d).
RoundQ(q, r, d) ==
    IF 2 * r > d \/ (2 * r = d /\ q % 2 = 1) THEN q + 1 ELSE q

\* The float s * q * 10^e for a rounded mantissa q in BD1..BD.
Pack(s, q, e) ==
    IF q = BD THEN [m |-> s * BD1, e |-> e + 1] ELSE [m |-> s * q, e |-> e]

\* n * 10^e with n cut to Digits digits, k being the number of digits of n.
NormDigits(s, n, e, k) ==
    IF k > Digits
    THEN Pack(s, RoundQ(n \div (10 ^ (k - Digits)), n % (10 ^ (k - Digits)),
                        10 ^ (k - Digits)),
              e + (k - Digits))
    ELSE [m |-> s * n * (10 ^ (Digits - k)), e |-> e - (Digits - k)]

\* The float nearest to s * n * 10^e, for a sign s and a magnitude n >= 0.
Norm(s, n, e) == IF n = 0 THEN Zero ELSE NormDigits(s, n, e, NumDigits(n))

FromInt(i) == Norm(Sgn(i), Abs(i), 0)

\* The decimal literal n * 10^(-k), rounded to the format as the Python
\* parser rounds a literal to a float.
Lit(n, k) == Norm(Sgn(n), Abs(n), 0 - k)

Neg(a) == [m |-> 0 - a.m, e |-> a.e]

\* The exact product x * y of two mantissas as <<hi, lo>>, hi * BD + lo,
\* accumulated digit by digit of y from the most significant one.
RECURSIVE MulLoop(_, _, _, _, _)
MulLoop(x, y, i, hi, lo) ==
    IF i < 0 THEN <<hi, lo>>
    ELSE Bind(10 * lo + x * ((y \div (10 ^ i)) % 10), LAMBDA lo2 :
         MulLoop(x, y, i - 1, 10 * hi + lo2 \div BD, lo2 % BD))

\* The product of sign s, exact mantissa product p = <<hi, lo>>, exponent e.
MulRound(s, p, e) ==
    IF p[1] >= BD1
    THEN Pack(s, RoundQ(p[1], p[2], BD), e + Digits)
    ELSE Pack(s, RoundQ(p[1] * 10 + p[2] \div BD1, p[2] % BD1, BD1),
              e + Digits - 1)

Mul(a, b) ==
    IF a.m = 0 \/ b.m = 0 THEN Zero
    ELSE MulRound(Sgn(a.m) * Sgn(b.m),
                  MulLoop(Abs(a.m), Abs(b.m), Digits - 1, 0, 0), a.e + b.e)

\* Long division: i further digits of the quotient q, with the remainder r.
RECURSIVE DivLoop(_, _, _, _)
DivLoop(r, y, q, i) ==
    IF i = 0 THEN <<q, r>>
    ELSE DivLoop((r * 10) % y, y, q * 10 + (r * 10) \div y, i - 1)

\* The quotient of sign s, digits and remainder p = <<q, r>> of the division
\* by y, exponent e.
DivRound(s, p, y, e) ==
    IF p[1] >= BD
    THEN Pack(s, RoundQ(p[1] \div 10, (p[1] % 10) * y + p[2], 10 * y),
              e - Digits + 1)
    ELSE Pack(s, RoundQ(p[1], p[2], y), e - Digits)

\* a / b for b # 0 (the division by 0 raises ZeroDivisionError before this).
Div(a, b) ==
    IF a.m = 0 THEN Zero
    ELSE DivRound(Sgn(a.m) * Sgn(b.m),
                  DivLoop(Abs(a.m) % Abs(b.m), Abs(b.m),
                          Abs(a.m) \div Abs(b.m), Digits),
                  Abs(b.m), a.e - b.e)

\* The mantissa of b aligned to the exponent of a, one guard digit kept
\* (d = a.e - b.e >= 0).
Aligned(b, d) ==
    IF d = 0 THEN b.m * 10 ELSE Sgn(b.m) * (Abs(b.m) \div (10 ^ (d - 1)))

NormSigned(t, e) == Norm(Sgn(t), Abs(t), e)

\* a + b where a has the larger exponent.
AddOrdered(a, b) ==
    IF a.e - b.e > Digits + 1 THEN a
    ELSE NormSigned(a.m * 10 + Aligned(b, a.e - b.e), a.e - 1)

Add(a, b) ==
    IF a.m = 0 THEN b
    ELSE IF b.m = 0 THEN a
    ELSE IF a.e >= b.e THEN AddOrdered(a, b) ELSE AddOrdered(b, a)

Sub(a, b) == Add(a, Neg(b))

PosLt(a, b) == a.e < b.e \/ (a.e = b.e /\ a.m < b.m)

Lt(a, b) ==
    IF a.m = 0 THEN b.m > 0
    ELSE IF b.m = 0 THEN a.m < 0
    ELSE IF a.m < 0 /\ b.m > 0 THEN TRUE
    ELSE IF a.m > 0 /\ b.m < 0 THEN FALSE
    ELSE IF a.m > 0 THEN PosLt(a, b)
    ELSE PosLt(Neg(b), Neg(a))

Le(a, b) == ~Lt(b, a)

Ge(a, b) == ~Lt(a, b)

Gt(a, b) == Lt(b, a)

\* ------------------------------------------------------------------------
\* Python values
\* ------------------------------------------------------------------------

\* None, where the value is otherwise a number or a dictionary.
None == [none |-> TRUE]

\* None, where the value is otherwise a string (vent_type).
NoneStr == "<None>"

\* True and False, where the value may also be None.
PyTrue == [bool |-> TRUE]

PyFalse == [bool |-> FALSE]

\* A raised exception, as the outcome of a call.
Raise(name) == [exc |-> name]

Exceptions ==
    {Raise("ValueError"), Raise("ZeroDivisionError"), Raise("IndexError")}

Raised(r) == r \in Exceptions

\* dict.get(key, default) on a record used as a dictionary
Get(d, key, default) == IF key \in DOMAIN d THEN d[key] ELSE default

VARIABLES
    self,      \* the calculator object's attributes
    call,      \* the operation being called, with its arguments
    result,    \* what that call returned (or the exception it raised)
    caller     \* the lists and dictionaries passed, as the call left them

vars == <<self, call, result, caller>>

\* ------------------------------------------------------------------------
\* ChimneyCalculator.__init__ and EnhancedChimneyCalculator.__init__
\* ------------------------------------------------------------------------

UL441 == "UL441 Type B Vent"

UL1738 == "UL1738 Special Gas Vent"

UL103 == "UL103 Pressure Chimney"

\* self.fitting_coefficients_by_vent_type
InitVentTypeTable ==
    (UL441 :>
        ("entrance" :> Lit(5, 1) @@ "15_elbow" :> Lit(12, 2) @@
         "30_elbow" :> Lit(12, 2) @@ "45_elbow" :> Lit(25, 2) @@
         "90_elbow" :> Lit(75, 2) @@ "straight_tee" :> Lit(125, 2) @@
         "90_tee_branch" :> Lit(125, 2) @@ "lateral_tee" :> Lit(40, 2) @@
         "exit" :> Lit(10, 1) @@ "termination_cap" :> Lit(50, 2) @@
         "tee_cap" :> Lit(3, 1) @@ "base_friction_factor" :> Lit(40, 2)))
    @@
    (UL1738 :>
        ("entrance" :> Lit(5, 1) @@ "15_elbow" :> Lit(12, 2) @@
         "30_elbow" :> Lit(12, 2) @@ "45_elbow" :> Lit(15, 2) @@
         "90_elbow" :> Lit(30, 2) @@ "straight_tee" :> Lit(125, 2) @@
         "90_tee_branch" :> Lit(125, 2) @@ "lateral_tee" :> Lit(55, 2) @@
         "exit" :> Lit(10, 1) @@ "termination_cap" :> Lit(50, 2) @@
         "tee_cap" :> Lit(35, 2) @@ "base_friction_factor" :> Lit(27, 2)))
    @@
    (UL103 :>
        ("entrance" :> Lit(5, 1) @@ "15_elbow" :> Lit(12, 2) @@
         "30_elbow" :> Lit(12, 2) @@ "45_elbow" :> Lit(15, 2) @@
         "90_elbow" :> Lit(30, 2) @@ "straight_tee" :> Lit(125, 2) @@
         "90_tee_branch" :> Lit(125, 2) @@ "lateral_tee" :> Lit(40, 2) @@
         "exit" :> Lit(10, 1) @@ "termination_cap" :> Lit(50, 2) @@
         "tee_cap" :> Lit(25, 2) @@ "base_friction_factor" :> Lit(30, 2)))

\* self.fittings: the generic K-values
InitFittings ==
    "entrance" :> Lit(5, 1) @@ "15_elbow" :> Lit(15, 2) @@
    "30_elbow" :> Lit(25, 2) @@ "45_elbow" :> Lit(4, 1) @@
    "90_elbow" :> Lit(9, 1) @@ "straight_tee" :> Lit(6, 1) @@
    "90_tee_branch" :> Lit(13, 1) @@ "lateral_tee" :> Lit(8, 1) @@
    "termination_cap" :> Lit(10, 1) @@ "tee_cap" :> Lit(6, 1) @@
    "exit" :> Lit(10, 1)

\* self.standard_diameters
InitStandardDiameters ==
    << FromInt(3), FromInt(4), FromInt(5), FromInt(6), FromInt(7),
       FromInt(8), FromInt(10), FromInt(12), FromInt(14), FromInt(16),
       FromInt(18), FromInt(20), FromInt(24), FromInt(30), FromInt(36) >>

\* self.appliance_categories
InitApplianceCategories ==
    "cat_i_fan" :>
        [name |-> "Category I - Fan Assisted", co2_default |-> Lit(68, 1),
         temp_default |-> FromInt(320),
         pressure_range |-> <<Lit(0 - 8, 2), Lit(0 - 3, 2)>>]
    @@ "cat_ii" :>
        [name |-> "Category II - Non-Condensing", co2_default |-> Lit(85, 1),
         temp_default |-> FromInt(285),
         pressure_range |-> <<Lit(0 - 8, 2), Lit(0 - 3, 2)>>]
    @@ "cat_iii" :>
        [name |-> "Category III - Non-Condensing", co2_default |-> Lit(80, 1),
         temp_default |-> FromInt(320),
         pressure_range |-> <<Lit(0, 2), Lit(8, 2)>>]
    @@ "cat_iv" :>
        [name |-> "Category IV - Condensing", co2_default |-> Lit(85, 1),
         temp_default |-> FromInt(275),
         pressure_range |-> <<Lit(0 - 5, 2), Lit(25, 2)>>]

\* The attributes of a freshly constructed EnhancedChimneyCalculator.
NewCalculator ==
    [g |-> Lit(32174, 3),
     R |-> Lit(5335, 2),
     standard_barometric_pressure |-> Lit(2992, 2),
     fitting_coefficients_by_vent_type |-> InitVentTypeTable,
     fittings |-> InitFittings,
     base_friction_factor |-> Lit(3, 1),
     standard_diameters |-> InitStandardDiameters,
     appliance_categories |-> InitApplianceCategories]

\* ------------------------------------------------------------------------
\* ChimneyCalculator: gas properties, combustion, flow, draft
\* ------------------------------------------------------------------------

\* The reciprocal of the ideal gas law: R x T / P.
SpecificVolume(temp_f) ==
    Div(Mul(self.R, Add(temp_f, Lit(45967, 2))), Lit(21162, 1))

air_density(temp_f) ==
    Div(Lit(21162, 1), Mul(self.R, Add(temp_f, Lit(45967, 2))))

\* The name compared as it was written.
NoLower(str) == str

\* str.lower() on the fuel names the model passes
Lower(str) ==
    CASE str = "Natural_Gas" -> "natural_gas"
      [] str = "NG"          -> "ng"
      [] str = "Gas"         -> "gas"
      [] str = "Propane"     -> "propane"
      [] str = "LP_GAS"      -> "lp_gas"
      [] str = "Lp"          -> "lp"
      [] str = "LPG"         -> "lpg"
      [] str = "OIL"         -> "oil"
      [] str = "Fuel_Oil"    -> "fuel_oil"
      [] str = "#2_OIL"      -> "#2_oil"
      [] str = "Coal"        -> "coal"
      [] OTHER               -> str

\* The mass flow taken per BTU instead of per 1000 BTU.
MassFlowResultPerBtu(M, fuel_name, mbh, co2_percent) ==
    Bind(Mul(M, Mul(mbh, FromInt(1000))), LAMBDA mass_flow_lbm_hr :
        [mass_flow_lbm_hr |-> mass_flow_lbm_hr,
         mass_flow_lbm_min |-> Div(mass_flow_lbm_hr, FromInt(60)),
         M_factor |-> M,
         fuel_type |-> fuel_name,
         mbh |-> mbh,
         co2_percent |-> co2_percent])

\* The statements after the mass flow factor M has been computed.
MassFlowResult(M, fuel_name, mbh, co2_percent) ==
    Bind(Mul(M, mbh), LAMBDA mass_flow_lbm_hr :
        [mass_flow_lbm_hr |-> mass_flow_lbm_hr,
         mass_flow_lbm_min |-> Div(mass_flow_lbm_hr, FromInt(60)),
         M_factor |-> M,
         fuel_type |-> fuel_name,
         mbh |-> mbh,
         co2_percent |-> co2_percent])

\* The formulas with the term in 1/CO2 dropped where the CO2 reading is 0.
MassFlowIgnoringZeroCo2(mbh, co2_percent, fuel_type) ==
    Bind(Lower(fuel_type), LAMBDA fuel_type_lower :
    IF fuel_type_lower \in {"natural_gas", "gas", "ng"}
    THEN MassFlowResult(
           Mul(Lit(705, 3),
               IF co2_percent.m = 0 THEN Lit(159, 3)
               ELSE Add(Lit(159, 3), Div(Lit(1072, 2), co2_percent))),
           "natural_gas", mbh, co2_percent)
    ELSE IF fuel_type_lower \in {"lp_gas", "lp", "propane", "lpg"}
    THEN MassFlowResult(
           Mul(Lit(704, 3),
               IF co2_percent.m = 0 THEN Lit(144, 3)
               ELSE Add(Lit(144, 3), Div(Lit(1261, 2), co2_percent))),
           "lp_gas", mbh, co2_percent)
    ELSE IF fuel_type_lower \in {"oil", "fuel_oil", "#2_oil"}
    THEN MassFlowResult(
           Mul(Lit(72, 2),
               IF co2_percent.m = 0 THEN Lit(12, 2)
               ELSE Add(Lit(12, 2), Div(Lit(144, 1), co2_percent))),
           "oil", mbh, co2_percent)
    ELSE Raise("ValueError"))

mass_flow_from_fuel_input(mbh, co2_percent, fuel_type) ==
    Bind(Lower(fuel_type), LAMBDA fuel_type_lower :
    IF fuel_type_lower \in {"natural_gas", "gas", "ng"}
    THEN IF co2_percent.m = 0 THEN Raise("ZeroDivisionError")
         ELSE MassFlowResult(
                Mul(Lit(705, 3),
                    Add(Lit(159, 3), Div(Lit(1072, 2), co2_percent))),
                "natural_gas", mbh, co2_percent)
    ELSE IF fuel_type_lower \in {"lp_gas", "lp", "propane", "lpg"}
    THEN IF co2_percent.m = 0 THEN Raise("ZeroDivisionError")
         ELSE MassFlowResult(
                Mul(Lit(704, 3),
                    Add(Lit(144, 3), Div(Lit(1261, 2), co2_percent))),
                "lp_gas", mbh, co2_percent)
    ELSE IF fuel_type_lower \in {"oil", "fuel_oil", "#2_oil"}
    THEN IF co2_percent.m = 0 THEN Raise("ZeroDivisionError")
         ELSE MassFlowResult(
                Mul(Lit(72, 2),
                    Add(Lit(12, 2), Div(Lit(144, 1), co2_percent))),
                "oil", mbh, co2_percent)
    ELSE Raise("ValueError"))

cfm_from_mass_flow(mass_flow_lbm_min, temp_f) ==
    Bind(air_density(temp_f), LAMBDA rho :
        [cfm |-> Div(mass_flow_lbm_min, rho),
         mass_flow_lbm_min |-> mass_flow_lbm_min,
         density_lbm_ft3 |-> rho,
         temp_f |-> temp_f])

\* The statements of cfm_from_combustion after mass_result has been computed.
CombustionResult(mass_result, mbh, co2_percent, temp_f) ==
    Bind(cfm_from_mass_flow(mass_result.mass_flow_lbm_min, temp_f),
         LAMBDA cfm_result :
        [cfm |-> cfm_result.cfm,
         mass_flow_lbm_hr |-> mass_result.mass_flow_lbm_hr,
         mass_flow_lbm_min |-> mass_result.mass_flow_lbm_min,
         M_factor |-> mass_result.M_factor,
         mbh |-> mbh,
         co2_percent |-> co2_percent,
         temp_f |-> temp_f,
         fuel_type |-> mass_result.fuel_type,
         density_lbm_ft3 |-> cfm_result.density_lbm_ft3])

cfm_from_combustion(mbh, co2_percent, temp_f, fuel_type) ==
    Bind(mass_flow_from_fuel_input(mbh, co2_percent, fuel_type),
         LAMBDA mass_result :
        IF Raised(mass_result) THEN mass_result
        ELSE CombustionResult(mass_result, mbh, co2_percent, temp_f))

\* The two reciprocal temperatures exchanged.
TheoreticalDraftReversed(height_ft, temp_flue_gas_f, temp_outside_f, barometric_pressure_inHg) ==
    Mul(Mul(Mul(Lit(2554, 4),
                IF barometric_pressure_inHg = None
                THEN self.standard_barometric_pressure
                ELSE barometric_pressure_inHg),
            height_ft),
        Sub(Div(FromInt(1), Add(temp_flue_gas_f, Lit(45967, 2))),
            Div(FromInt(1), Add(temp_outside_f, Lit(45967, 2)))))

theoretical_draft(height_ft, temp_flue_gas_f, temp_outside_f, barometric_pressure_inHg) ==
    Mul(Mul(Mul(Lit(2554, 4),
                IF barometric_pressure_inHg = None
                THEN self.standard_barometric_pressure
                ELSE barometric_pressure_inHg),
            height_ft),
        Sub(Div(FromInt(1), Add(temp_outside_f, Lit(45967, 2))),
            Div(FromInt(1), Add(temp_flue_gas_f, Lit(45967, 2)))))

\* math.pi
Pi == Lit(314159265, 8)

\* area_ft2 = math.pi * (diameter_inches / 12) ** 2 / 4
AreaFt2(diameter_inches) ==
    Bind(Div(diameter_inches, FromInt(12)), LAMBDA d12 :
        Div(Mul(Pi, Mul(d12, d12)), FromInt(4)))

\* The velocity through a 12 in. vent, whatever the diameter.
VelocityAtFixedArea(cfm, diameter_inches) ==
    Div(Div(cfm, AreaFt2(FromInt(12))), FromInt(60))

velocity_from_cfm(cfm, diameter_inches) ==
    Div(Div(cfm, AreaFt2(diameter_inches)), FromInt(60))

cfm_from_velocity(velocity_fps, diameter_inches) ==
    Mul(Mul(velocity_fps, FromInt(60)), AreaFt2(diameter_inches))

\* ------------------------------------------------------------------------
\* ChimneyCalculator: pressure loss
\* ------------------------------------------------------------------------

\* A fittings dictionary is the sequence of its <<fitting_type, quantity>>
\* items in insertion order (the order the loop adds them up in); an omitted
\* fittings_dict (None) is the empty dictionary, which the code treats alike.

\* sum_k += k_value; fitting_breakdown.append({...})
AddFitting(acc, fitting_type, quantity, k_each) ==
    Bind(Mul(k_each, quantity), LAMBDA k_value :
        [sum_k |-> Add(acc.sum_k, k_value),
         fitting_breakdown |-> Append(acc.fitting_breakdown,
            [fitting_type |-> fitting_type,
             quantity |-> quantity,
             k_each |-> k_each,
             k_total |-> k_value])])

\* The loop over fittings_dict.items(): acc is [sum_k, fitting_breakdown].
RECURSIVE FittingsLoop(_, _, _, _)
FittingsLoop(fittings_dict, fitting_k_values, i, acc) ==
    IF i > Len(fittings_dict) THEN acc
    ELSE IF fittings_dict[i][1] \in DOMAIN fitting_k_values
    THEN FittingsLoop(fittings_dict, fitting_k_values, i + 1,
            AddFitting(acc, fittings_dict[i][1], fittings_dict[i][2],
                       fitting_k_values[fittings_dict[i][1]]))
    ELSE IF fittings_dict[i][1] \in DOMAIN self.fittings
    THEN FittingsLoop(fittings_dict, fitting_k_values, i + 1,
            AddFitting(acc, fittings_dict[i][1], fittings_dict[i][2],
                       self.fittings[fittings_dict[i][1]]))
    ELSE FittingsLoop(fittings_dict, fitting_k_values, i + 1, acc)

\* additional_k added whatever its sign.
AddAdditionalKAlways(acc, additional_k) ==
    [sum_k |-> Add(acc.sum_k, additional_k),
     fitting_breakdown |-> Append(acc.fitting_breakdown,
        [fitting_type |-> "additional_k_resistance",
         quantity |-> FromInt(1),
         k_each |-> additional_k,
         k_total |-> additional_k])]

\* if additional_k > 0: sum_k += additional_k; fitting_breakdown.append({...})
AddAdditionalK(acc, additional_k) ==
    IF Gt(additional_k, Zero)
    THEN [sum_k |-> Add(acc.sum_k, additional_k),
          fitting_breakdown |-> Append(acc.fitting_breakdown,
             [fitting_type |-> "additional_k_resistance",
              quantity |-> FromInt(1),
              k_each |-> additional_k,
              k_total |-> additional_k])]
    ELSE acc

\* No vent type taken as known.
NeverKnown(vent_type) == FALSE

\* if vent_type and vent_type in self.fitting_coefficients_by_vent_type
KnownVentType(vent_type) ==
    /\ vent_type # NoneStr
    /\ vent_type # ""
    /\ vent_type \in DOMAIN self.fitting_coefficients_by_vent_type

\* The statements of pressure_loss from the velocity term to the return.
LossResult(friction_term, base_friction, summed, rho, velocity_term, velocity_fpm, vent_type, additional_k, additional_pressure_loss) ==
    Bind(Mul(Mul(Add(friction_term, summed.sum_k), rho), velocity_term),
         LAMBDA calculated_loss :
        [friction |-> Mul(Mul(friction_term, rho), velocity_term),
         fittings |-> Mul(Mul(summed.sum_k, rho), velocity_term),
         calculated_loss |-> calculated_loss,
         additional_pressure_loss |-> additional_pressure_loss,
         total |-> Add(calculated_loss, additional_pressure_loss),
         friction_term |-> friction_term,
         base_friction_factor |-> base_friction,
         sum_k |-> summed.sum_k,
         additional_k |-> additional_k,
         fitting_breakdown |-> summed.fitting_breakdown,
         density_lbm_ft3 |-> rho,
         velocity_fpm |-> velocity_fpm,
         vent_type |-> IF vent_type = NoneStr \/ vent_type = ""
                       THEN "Generic" ELSE vent_type])

\* The ratio left unsquared.
VelocityRatio(velocity_fpm) == Div(velocity_fpm, Lit(10962, 1))

\* (velocity_fpm / 1096.2) ** 2
VelocityTerm(velocity_fpm) ==
    Bind(Div(velocity_fpm, Lit(10962, 1)), LAMBDA vq : Mul(vq, vq))

pressure_loss(length_ft, diameter_inches, velocity_fpm, temp_f, fittings_dict, vent_type, additional_k, additional_pressure_loss) ==
    Bind(IF KnownVentType(vent_type)
         THEN self.fitting_coefficients_by_vent_type[vent_type]
         ELSE self.fittings, LAMBDA fitting_k_values :
    Bind(IF KnownVentType(vent_type)
         THEN Get(fitting_k_values, "base_friction_factor", Lit(3, 1))
         ELSE self.base_friction_factor, LAMBDA base_friction :
    Bind(AddAdditionalK(
            FittingsLoop(fittings_dict, fitting_k_values, 1,
                         [sum_k |-> Zero, fitting_breakdown |-> <<>>]),
            additional_k), LAMBDA summed :
        LossResult(Mul(base_friction, Div(length_ft, diameter_inches)),
                   base_friction, summed, air_density(temp_f),
                   VelocityTerm(velocity_fpm), velocity_fpm, vent_type,
                   additional_k, additional_pressure_loss))))

\* The segment's vent type and additional losses handed on to pressure_loss.
TotalPressureLossOfSegment(system_config, velocity_fps, temp_f) ==
    Bind(pressure_loss(system_config.length_ft,
                       system_config.diameter_inches,
                       Mul(velocity_fps, FromInt(60)), temp_f,
                       Get(system_config, "fittings", <<>>),
                       Get(system_config, "vent_type", NoneStr),
                       Get(system_config, "additional_k", Zero),
                       Get(system_config, "additional_pressure_loss", Zero)),
         LAMBDA losses :
        [friction |-> losses.friction,
         total_fittings |-> losses.fittings,
         total |-> losses.total,
         fittings |-> losses.fitting_breakdown,
         details |-> losses])

total_pressure_loss(system_config, velocity_fps, temp_f) ==
    Bind(pressure_loss(system_config.length_ft,
                       system_config.diameter_inches,
                       Mul(velocity_fps, FromInt(60)), temp_f,
                       Get(system_config, "fittings", <<>>),
                       NoneStr, Zero, Zero), LAMBDA losses :
        [friction |-> losses.friction,
         total_fittings |-> losses.fittings,
         total |-> losses.total,
         fittings |-> losses.fitting_breakdown,
         details |-> losses])

\* The subtraction with its operands exchanged.
LossMinusTheoretical(theoretical_draft_inwc, total_loss_inwc) ==
    Sub(total_loss_inwc, theoretical_draft_inwc)

available_draft(theoretical_draft_inwc, total_loss_inwc) ==
    Sub(theoretical_draft_inwc, total_loss_inwc)

\* ------------------------------------------------------------------------
\* ChimneyCalculator: diameter selection and system analysis
\* ------------------------------------------------------------------------

\* config = system_config.copy(); config['diameter_inches'] = diameter
WithDiameter(system_config, diameter) ==
    [k \in DOMAIN system_config \cup {"diameter_inches"} |->
        IF k = "diameter_inches" THEN diameter ELSE system_config[k]]

\* The requirement read as an upper limit of the available draft.
OptionRecordAtMost(diameter, velocity, theoretical, losses, available, min_available_draft_inwc) ==
    [diameter_inches |-> diameter,
     velocity_fps |-> velocity,
     theoretical_draft_inwc |-> theoretical,
     pressure_loss_inwc |-> losses.total,
     available_draft_inwc |-> available,
     meets_requirement |-> Le(available, min_available_draft_inwc),
     loss_breakdown |-> losses]

\* results.append({...}) of one pass of the loop of select_diameter
OptionRecord(diameter, velocity, theoretical, losses, available, min_available_draft_inwc) ==
    [diameter_inches |-> diameter,
     velocity_fps |-> velocity,
     theoretical_draft_inwc |-> theoretical,
     pressure_loss_inwc |-> losses.total,
     available_draft_inwc |-> available,
     meets_requirement |-> Ge(available, min_available_draft_inwc),
     loss_breakdown |-> losses]

\* One pass of the loop over self.standard_diameters.
DiameterOption(diameter, cfm, theoretical, temp_flue_gas_f, system_config, min_available_draft_inwc) ==
    Bind(velocity_from_cfm(cfm, diameter), LAMBDA velocity :
    Bind(total_pressure_loss(WithDiameter(system_config, diameter), velocity,
                             temp_flue_gas_f), LAMBDA losses :
        OptionRecord(diameter, velocity, theoretical, losses,
                     available_draft(theoretical, losses.total),
                     min_available_draft_inwc)))

\* for diameter in self.standard_diameters: ... results.append({...})
RECURSIVE DiameterLoop(_, _, _, _, _, _, _)
DiameterLoop(cfm, theoretical, temp_flue_gas_f, system_config, min_available_draft_inwc, i, results) ==
    IF i > Len(self.standard_diameters) THEN results
    ELSE DiameterLoop(cfm, theoretical, temp_flue_gas_f, system_config,
            min_available_draft_inwc, i + 1,
            Append(results,
                   DiameterOption(self.standard_diameters[i], cfm, theoretical,
                                  temp_flue_gas_f, system_config,
                                  min_available_draft_inwc)))

\* suitable = [r for r in results if r['meets_requirement']]
Suitable(results) == SelectSeq(results, LAMBDA r : r.meets_requirement)

\* The largest qualifying diameter in place of the smallest.
PickLast(suitable) == suitable[Len(suitable)]

\* selected = suitable[0]
PickSelected(suitable) == suitable[1]

\* selected['all_options'] = results; return selected.  (In Python selected
\* is the very dictionary held in results, which thereby gains the key too;
\* the entry of all_options keeps its option fields either way.)
WithAllOptions(selected, results) ==
    [k \in DOMAIN selected \cup {"all_options"} |->
        IF k = "all_options" THEN results ELSE selected[k]]

\* A sweep that falls back to the largest diameter when none qualifies.
SelectFromFallback(results, suitable) ==
    IF suitable # <<>>
    THEN WithAllOptions(PickSelected(suitable), results)
    ELSE WithAllOptions(results[Len(results)], results)

\* The statements of select_diameter after the loop.
SelectFrom(results, suitable) ==
    IF suitable # <<>>
    THEN WithAllOptions(PickSelected(suitable), results)
    ELSE [diameter_inches |-> None,
          error |-> "No standard diameter meets the minimum draft requirement",
          all_options |-> results]

select_diameter(cfm, height_ft, temp_flue_gas_f, temp_outside_f, system_config, min_available_draft_inwc, barometric_pressure_inHg) ==
    Bind(DiameterLoop(cfm,
                      theoretical_draft(height_ft, temp_flue_gas_f,
                                        temp_outside_f,
                                        barometric_pressure_inHg),
                      temp_flue_gas_f, system_config,
                      min_available_draft_inwc, 1, <<>>), LAMBDA results :
        SelectFrom(results, Suitable(results)))

\* The dictionary analyze_system returns.
SystemRecord(cfm, diameter_inches, velocity, height_ft, length_ft, temp_flue_gas_f, temp_outside_f, barometric_pressure_inHg, theoretical, losses, fittings_dict) ==
    [cfm |-> cfm,
     diameter_inches |-> diameter_inches,
     velocity_fps |-> velocity,
     height_ft |-> height_ft,
     length_ft |-> length_ft,
     temp_flue_gas_f |-> temp_flue_gas_f,
     temp_outside_f |-> temp_outside_f,
     \* barometric_pressure_inHg or self.standard_barometric_pressure
     barometric_pressure_inHg |->
        IF barometric_pressure_inHg = None
        THEN self.standard_barometric_pressure
        ELSE IF barometric_pressure_inHg.m = 0
        THEN self.standard_barometric_pressure
        ELSE barometric_pressure_inHg,
     theoretical_draft_inwc |-> theoretical,
     pressure_loss_inwc |-> losses.total,
     available_draft_inwc |-> available_draft(theoretical, losses.total),
     loss_breakdown |-> losses,
     fittings |-> fittings_dict]

analyze_system(cfm, diameter_inches, height_ft, length_ft, temp_flue_gas_f, temp_outside_f, fittings_dict, barometric_pressure_inHg) ==
    Bind(theoretical_draft(height_ft, temp_flue_gas_f, temp_outside_f,
                           barometric_pressure_inHg), LAMBDA theoretical :
    Bind(velocity_from_cfm(cfm, diameter_inches), LAMBDA velocity :
    Bind(total_pressure_loss([length_ft |-> length_ft,
                              diameter_inches |-> diameter_inches,
                              fittings |-> fittings_dict],
                             velocity, temp_flue_gas_f), LAMBDA losses :
        SystemRecord(cfm, diameter_inches, velocity, height_ft, length_ft,
                     temp_flue_gas_f, temp_outside_f,
                     barometric_pressure_inHg, theoretical, losses,
                     fittings_dict))))

\* ------------------------------------------------------------------------
\* EnhancedChimneyCalculator: multi-appliance analysis
\* ------------------------------------------------------------------------

\* One pass of the loop of calculate_combined_cfm, for the combustion result
\* r of appliance i: acc is [total_cfm, total_mass_flow_lbm_min,
\* appliance_results].
\* The absolute temperature stored with the offset of the Kelvin scale.
CombinedStepKelvinOffset(acc, i, app, r) ==
    [total_cfm |-> Add(acc.total_cfm, r.cfm),
     total_mass_flow_lbm_min |->
        Add(acc.total_mass_flow_lbm_min, r.mass_flow_lbm_min),
     appliance_results |-> Append(acc.appliance_results,
        [appliance_id |-> i,
         mbh |-> app.mbh,
         cfm |-> r.cfm,
         mass_flow_lbm_min |-> r.mass_flow_lbm_min,
         temp_f |-> app.temp_f,
         temp_r |-> Add(app.temp_f, Lit(27315, 2)),
         category |-> Get(app, "category", "custom")])]

CombinedStep(acc, i, app, r) ==
    [total_cfm |-> Add(acc.total_cfm, r.cfm),
     total_mass_flow_lbm_min |->
        Add(acc.total_mass_flow_lbm_min, r.mass_flow_lbm_min),
     appliance_results |-> Append(acc.appliance_results,
        [appliance_id |-> i,
         mbh |-> app.mbh,
         cfm |-> r.cfm,
         mass_flow_lbm_min |-> r.mass_flow_lbm_min,
         temp_f |-> app.temp_f,
         temp_r |-> Add(app.temp_f, Lit(45967, 2)),
         category |-> Get(app, "category", "custom")])]

\* for i, app in enumerate(appliances): ...
RECURSIVE CombinedLoop(_, _, _)
CombinedLoop(appliances, i, acc) ==
    IF i > Len(appliances) THEN acc
    ELSE Bind(cfm_from_combustion(appliances[i].mbh,
                                  appliances[i].co2_percent,
                                  appliances[i].temp_f,
                                  Get(appliances[i], "fuel_type",
                                      "natural_gas")), LAMBDA r :
         IF Raised(r) THEN r
         ELSE CombinedLoop(appliances, i + 1,
                           CombinedStep(acc, i, appliances[i], r)))

\* sum(app['mass_flow_lbm_min'] * app['temp_r'] for app in appliance_results)
RECURSIVE WeightedSum(_, _, _)
WeightedSum(appliance_results, i, acc) ==
    IF i > Len(appliance_results) THEN acc
    ELSE WeightedSum(appliance_results, i + 1,
            Add(acc, Mul(appliance_results[i].mass_flow_lbm_min,
                         appliance_results[i].temp_r)))

\* The weighted mean left in Rankine.
MixedTempRankine(appliance_results, total_mass_flow_lbm_min) ==
    Div(WeightedSum(appliance_results, 1, Zero), total_mass_flow_lbm_min)

\* The temperature of the first appliance, whatever the others add.
MixedTempOfFirst(appliance_results, total_mass_flow_lbm_min) ==
    appliance_results[1].temp_f

\* The mixed temperature for a positive total mass flow.
MixedTemp(appliance_results, total_mass_flow_lbm_min) ==
    Sub(Div(WeightedSum(appliance_results, 1, Zero), total_mass_flow_lbm_min),
        Lit(45967, 2))

\* [app['temp_f'] for app in appliance_results]
IndividualTemps(appliance_results) ==
    [i \in 1..Len(appliance_results) |-> appliance_results[i].temp_f]

\* The total reported as the plain sum of the individual CFMs.
CombinedRecordSummedCfm(appliances, acc, mixed_temp_f, rho_mixed) ==
    [total_cfm |-> acc.total_cfm,
     total_mass_flow_lbm_min |-> acc.total_mass_flow_lbm_min,
     weighted_avg_temp_f |-> mixed_temp_f,
     num_appliances |-> Len(appliances),
     appliance_results |-> acc.appliance_results,
     mixing_info |->
        [individual_temps_f |-> IndividualTemps(acc.appliance_results),
         mixed_temp_f |-> mixed_temp_f,
         density_at_mixed_temp |-> rho_mixed]]

\* The dictionary calculate_combined_cfm returns.
CombinedRecord(appliances, acc, mixed_temp_f, rho_mixed) ==
    [total_cfm |-> Div(acc.total_mass_flow_lbm_min, rho_mixed),
     total_mass_flow_lbm_min |-> acc.total_mass_flow_lbm_min,
     weighted_avg_temp_f |-> mixed_temp_f,
     num_appliances |-> Len(appliances),
     appliance_results |-> acc.appliance_results,
     mixing_info |->
        [individual_temps_f |-> IndividualTemps(acc.appliance_results),
         mixed_temp_f |-> mixed_temp_f,
         density_at_mixed_temp |-> rho_mixed]]

\* The weighted mean taken whatever the total: a zero total divides by zero.
CombinedMixUnguarded(appliances, acc) ==
    IF acc.total_mass_flow_lbm_min.m = 0 THEN Raise("ZeroDivisionError")
    ELSE Bind(MixedTemp(acc.appliance_results, acc.total_mass_flow_lbm_min),
              LAMBDA mixed_temp_f :
            CombinedRecord(appliances, acc, mixed_temp_f,
                           air_density(mixed_temp_f)))

\* The statements of calculate_combined_cfm after the loop.
CombinedMix(appliances, acc) ==
    IF Gt(acc.total_mass_flow_lbm_min, Zero)
    THEN Bind(MixedTemp(acc.appliance_results, acc.total_mass_flow_lbm_min),
              LAMBDA mixed_temp_f :
            CombinedRecord(appliances, acc, mixed_temp_f,
                           air_density(mixed_temp_f)))
    \* appliances[0] of an empty list raises IndexError
    ELSE IF appliances = <<>> THEN Raise("IndexError")
    ELSE CombinedRecord(appliances, acc, appliances[1].temp_f,
                        air_density(appliances[1].temp_f))

calculate_combined_cfm(appliances) ==
    Bind(CombinedLoop(appliances, 1,
                      [total_cfm |-> Zero, total_mass_flow_lbm_min |-> Zero,
                       appliance_results |-> <<>>]), LAMBDA acc :
        IF Raised(acc) THEN acc ELSE CombinedMix(appliances, acc))

analyze_connector(appliance, connector_config, temp_outside_f) ==
    Bind(cfm_from_combustion(appliance.mbh, appliance.co2_percent,
                             appliance.temp_f,
                             Get(appliance, "fuel_type", "natural_gas")),
         LAMBDA combustion :
        IF Raised(combustion) THEN combustion
        ELSE [connector |->
                analyze_system(combustion.cfm,
                               connector_config.diameter_inches,
                               Get(connector_config, "height_ft", Zero),
                               connector_config.length_ft,
                               appliance.temp_f, temp_outside_f,
                               connector_config.fittings, None),
              cfm |-> combustion.cfm,
              appliance |-> appliance])

\* list.insert keeping the order of sorted(..., reverse=True): x goes after
\* every element whose mbh is >= x's (the sort is stable).
RECURSIVE InsertDesc(_, _)
InsertDesc(sorted, x) ==
    IF sorted = <<>> THEN <<x>>
    ELSE IF Ge(Head(sorted).mbh, x.mbh)
         THEN <<Head(sorted)>> \o InsertDesc(Tail(sorted), x)
         ELSE <<x>> \o sorted

\* sorted(appliances, key=lambda x: x['mbh'], reverse=True)
RECURSIVE SortedByMbhDesc(_)
SortedByMbhDesc(appliances) ==
    IF appliances = <<>> THEN <<>>
    ELSE InsertDesc(SortedByMbhDesc(SubSeq(appliances, 1, Len(appliances) - 1)),
                    appliances[Len(appliances)])

\* The last of the maximal ones.
RECURSIVE MaxByMbhLast(_, _, _)
MaxByMbhLast(appliances, i, best) ==
    IF i > Len(appliances) THEN best
    ELSE MaxByMbhLast(appliances, i + 1,
                      IF Ge(appliances[i].mbh, best.mbh) THEN appliances[i]
                      ELSE best)

\* max(appliances, key=lambda x: x['mbh']): the first of the maximal ones
RECURSIVE MaxByMbh(_, _, _)
MaxByMbh(appliances, i, best) ==
    IF i > Len(appliances) THEN best
    ELSE MaxByMbh(appliances, i + 1,
                  IF Gt(appliances[i].mbh, best.mbh) THEN appliances[i] ELSE best)

\* min(appliances, key=lambda x: x['mbh']): the first of the minimal ones
RECURSIVE MinByMbh(_, _, _)
MinByMbh(appliances, i, best) ==
    IF i > Len(appliances) THEN best
    ELSE MinByMbh(appliances, i + 1,
                  IF Lt(appliances[i].mbh, best.mbh) THEN appliances[i] ELSE best)

\* The smallest appliance dropped in place of the largest.
AllButLast(sorted_apps) == SubSeq(sorted_apps, 1, Len(sorted_apps) - 1)

\* sorted_apps[1:]
AllButFirst(sorted_apps) == SubSeq(sorted_apps, 2, Len(sorted_apps))

\* The operating appliances of a scenario, for a non-empty appliance list.
Operating(appliances, operating_scenario) ==
    IF operating_scenario = "all" THEN appliances
    ELSE IF operating_scenario = "all_minus_one"
    THEN AllButFirst(SortedByMbhDesc(appliances))
    ELSE IF operating_scenario = "single_largest"
    THEN <<MaxByMbh(appliances, 2, appliances[1])>>
    ELSE IF operating_scenario = "single_smallest"
    THEN <<MinByMbh(appliances, 2, appliances[1])>>
    ELSE appliances

\* The statements of analyze_manifold_system after the operating appliances
\* have been chosen.
ManifoldResult(operating, manifold_config, temp_outside_f, operating_scenario) ==
    Bind(calculate_combined_cfm(operating), LAMBDA combined :
        IF Raised(combined) THEN combined
        ELSE [scenario |-> operating_scenario,
              num_operating |-> Len(operating),
              combined |-> combined,
              common_vent |->
                 analyze_system(combined.total_cfm,
                                manifold_config.diameter_inches,
                                manifold_config.height_ft,
                                manifold_config.length_ft,
                                combined.weighted_avg_temp_f,
                                temp_outside_f,
                                manifold_config.fittings, None),
              operating_appliances |-> operating])

analyze_manifold_system(appliances, manifold_config, temp_outside_f, operating_scenario) ==
    \* max() and min() of an empty list raise ValueError
    IF appliances = <<>>
       /\ operating_scenario \in {"single_largest", "single_smallest"}
    THEN Raise("ValueError")
    ELSE ManifoldResult(Operating(appliances, operating_scenario),
                        manifold_config, temp_outside_f, operating_scenario)

\* The total taken from the connector alone.
WorstCaseEntryConnectorOnly(i, app, connector_result, manifold_all) ==
    [appliance_id |-> i,
     appliance |-> app,
     connector_draft |-> connector_result.connector.available_draft_inwc,
     manifold_draft |-> manifold_all.common_vent.available_draft_inwc,
     total_available_draft |->
        connector_result.connector.available_draft_inwc,
     connector_result |-> connector_result,
     manifold_result |-> manifold_all]

\* worst_case_results.append({...}) of one pass of the loop
WorstCaseEntry(i, app, connector_result, manifold_all) ==
    [appliance_id |-> i,
     appliance |-> app,
     connector_draft |-> connector_result.connector.available_draft_inwc,
     manifold_draft |-> manifold_all.common_vent.available_draft_inwc,
     total_available_draft |->
        Add(connector_result.connector.available_draft_inwc,
            manifold_all.common_vent.available_draft_inwc),
     connector_result |-> connector_result,
     manifold_result |-> manifold_all]

\* The loop of analyze_worst_case_appliance: acc is [worst_case_results].
RECURSIVE WorstCaseLoop(_, _, _, _, _, _)
WorstCaseLoop(appliances, connector_configs, manifold_config, temp_outside_f, i, acc) ==
    IF i > Len(appliances) THEN acc
    ELSE
    Bind(analyze_connector(appliances[i], connector_configs[i],
                           temp_outside_f), LAMBDA connector_result :
    IF Raised(connector_result) THEN connector_result
    ELSE
    Bind(analyze_manifold_system(appliances, manifold_config, temp_outside_f,
                                 "all"), LAMBDA manifold_all :
    IF Raised(manifold_all) THEN manifold_all
    ELSE WorstCaseLoop(appliances, connector_configs, manifold_config,
            temp_outside_f, i + 1,
            [worst_case_results |-> Append(acc.worst_case_results,
                WorstCaseEntry(i, appliances[i], connector_result,
                               manifold_all))])))

\* The entry of the appliance of largest mbh in place of the lowest draft.
RECURSIVE MaxMbhEntry(_, _, _)
MaxMbhEntry(worst_case_results, i, best) ==
    IF i > Len(worst_case_results) THEN best
    ELSE MaxMbhEntry(worst_case_results, i + 1,
            IF Gt(worst_case_results[i].appliance.mbh, best.appliance.mbh)
            THEN worst_case_results[i] ELSE best)

\* min(worst_case_results, key=lambda x: x['total_available_draft'])
RECURSIVE MinByTotalDraft(_, _, _)
MinByTotalDraft(worst_case_results, i, best) ==
    IF i > Len(worst_case_results) THEN best
    ELSE MinByTotalDraft(worst_case_results, i + 1,
            IF Lt(worst_case_results[i].total_available_draft,
                  best.total_available_draft)
            THEN worst_case_results[i] ELSE best)

analyze_worst_case_appliance(appliances, connector_configs, manifold_config, temp_outside_f) ==
    Bind(WorstCaseLoop(appliances, connector_configs, manifold_config,
                       temp_outside_f, 1, [worst_case_results |-> <<>>]),
         LAMBDA looped :
        IF Raised(looped) THEN looped
        \* min() of an empty list raises ValueError
        ELSE IF looped.worst_case_results = <<>> THEN Raise("ValueError")
        ELSE [worst_case |->
                 MinByTotalDraft(looped.worst_case_results, 2,
                                 looped.worst_case_results[1]),
              all_appliances |-> looped.worst_case_results])

\* An off-by-one guard: more than two appliances.
MoreThanTwo(appliances) == Len(appliances) > 2

\* if len(appliances) > 1
MoreThanOne(appliances) == Len(appliances) > 1

complete_multi_appliance_analysis(appliances, connector_configs, manifold_config, temp_outside_f) ==
    Bind(analyze_manifold_system(appliances, manifold_config, temp_outside_f,
                                 "all"), LAMBDA all_operating :
    IF Raised(all_operating) THEN all_operating
    ELSE
    Bind(IF MoreThanOne(appliances)
         THEN analyze_manifold_system(appliances, manifold_config,
                                      temp_outside_f, "all_minus_one")
         ELSE None, LAMBDA all_minus_one :
    IF Raised(all_minus_one) THEN all_minus_one
    ELSE
    Bind(analyze_manifold_system(appliances, manifold_config, temp_outside_f,
                                 "single_largest"), LAMBDA single_largest :
    IF Raised(single_largest) THEN single_largest
    ELSE
    Bind(IF MoreThanOne(appliances)
         THEN analyze_manifold_system(appliances, manifold_config,
                                      temp_outside_f, "single_smallest")
         ELSE None, LAMBDA single_smallest :
    IF Raised(single_smallest) THEN single_smallest
    ELSE
    Bind(analyze_worst_case_appliance(appliances, connector_configs,
                                      manifold_config, temp_outside_f),
         LAMBDA worst_case :
    IF Raised(worst_case) THEN worst_case
    ELSE [all_operating |-> all_operating,
          all_minus_one |-> all_minus_one,
          single_largest |-> single_largest,
          single_smallest |-> single_smallest,
          worst_case |-> worst_case,
          num_appliances |-> Len(appliances)])))))

\* The range taken without its bounds.
InRangeExclusive(category, draft) ==
    /\ Lt(category.pressure_range[1], draft)
    /\ Lt(draft, category.pressure_range[2])

\* min_pressure <= available_draft <= max_pressure
InRange(category, draft) ==
    /\ Le(category.pressure_range[1], draft)
    /\ Le(draft, category.pressure_range[2])

\* The dictionary check_appliance_pressure_limits returns for a category.
LimitsRecord(category, draft) ==
    IF InRange(category, draft)
    THEN [compliant |-> PyTrue,
          available_draft |-> draft,
          required_range |-> category.pressure_range,
          category |-> category.name,
          message |-> <<"Within ", category.name, " limits">>]
    ELSE [compliant |-> PyFalse,
          available_draft |-> draft,
          required_range |-> category.pressure_range,
          category |-> category.name,
          issue |-> IF Lt(draft, category.pressure_range[1])
                    THEN "too_negative" ELSE "too_positive",
          message |-> <<"Outside ", category.name, " limits">>,
          recommendation |->
             IF Lt(draft, category.pressure_range[1])
             THEN "Consider draft control device"
             ELSE "Consider draft inducer or larger diameter"]

\* An unknown category checked against the first category of the table.
CheckLimitsDefaultCategory(appliance, draft) ==
    IF "category" \notin DOMAIN appliance
    THEN LimitsRecord(self.appliance_categories["cat_i_fan"], draft)
    ELSE IF appliance.category \notin DOMAIN self.appliance_categories
    THEN LimitsRecord(self.appliance_categories["cat_i_fan"], draft)
    ELSE LimitsRecord(self.appliance_categories[appliance.category], draft)

check_appliance_pressure_limits(appliance, draft) ==
    IF "category" \notin DOMAIN appliance
    THEN [compliant |-> None,
          message |-> "No category specified or unknown category"]
    ELSE IF appliance.category \notin DOMAIN self.appliance_categories
    THEN [compliant |-> None,
          message |-> "No category specified or unknown category"]
    ELSE LimitsRecord(self.appliance_categories[appliance.category], draft)

\* ------------------------------------------------------------------------
\* The inputs the calls are made with
\* ------------------------------------------------------------------------

MaxAppliances == 3

Fittings1 ==
    << <<"90_elbow", FromInt(2)>>, <<"termination_cap", FromInt(1)>>,
       <<"entrance", FromInt(1)>>, <<"exit", FromInt(1)>> >>

Fittings2 == << <<"45_elbow", FromInt(1)>>, <<"unlisted_damper", FromInt(3)>> >>

\* Appliance dictionaries: 'fuel_type' and 'category' are optional keys.
ApplianceA ==
    [mbh |-> FromInt(100), co2_percent |-> Lit(90, 1), temp_f |-> FromInt(400),
     category |-> "cat_i_fan"]

ApplianceB ==
    [mbh |-> FromInt(250), co2_percent |-> Lit(85, 1), temp_f |-> FromInt(275),
     fuel_type |-> "Propane", category |-> "cat_iv"]

ApplianceC ==
    [mbh |-> FromInt(100), co2_percent |-> Lit(80, 1), temp_f |-> FromInt(320),
     fuel_type |-> "oil"]

ApplianceSet == {ApplianceA, ApplianceB, ApplianceC}

ApplianceLists ==
    UNION {[1..n -> ApplianceSet] : n \in 1..MaxAppliances}

ConnectorWide ==
    [diameter_inches |-> FromInt(8), length_ft |-> FromInt(5),
     fittings |-> << <<"90_elbow", FromInt(1)>> >>]

ConnectorNarrow ==
    [diameter_inches |-> FromInt(4), length_ft |-> FromInt(12),
     height_ft |-> FromInt(2),
     fittings |-> << <<"90_elbow", FromInt(2)>>, <<"entrance", FromInt(1)>> >>]

ConnectorSet == {ConnectorWide, ConnectorNarrow}

\* The connector configurations of n appliances: all wide, all narrow, or
\* alternating.
ConnectorConfigs(n) ==
    {[i \in 1..n |-> ConnectorWide], [i \in 1..n |-> ConnectorNarrow],
     [i \in 1..n |-> IF i % 2 = 1 THEN ConnectorNarrow ELSE ConnectorWide],
     [i \in 1..n |-> IF i % 2 = 1 THEN ConnectorWide ELSE ConnectorNarrow]}

ManifoldSet ==
    {[diameter_inches |-> FromInt(10), height_ft |-> FromInt(30),
      length_ft |-> FromInt(35), fittings |-> Fittings1],
     [diameter_inches |-> FromInt(6), height_ft |-> FromInt(15),
      length_ft |-> FromInt(40), fittings |-> Fittings2]}

OutsideTemps == {FromInt(70), FromInt(0)}

DesignOutsideTemps == {FromInt(70)}

Scenarios ==
    {"all", "all_minus_one", "single_largest", "single_smallest", "peak"}

SystemConfigs ==
    {[length_ft |-> FromInt(25), fittings |-> Fittings1],
     [length_ft |-> FromInt(60), fittings |-> Fittings2,
      vent_type |-> UL441, additional_k |-> FromInt(2),
      additional_pressure_loss |-> Lit(5, 2)],
     [length_ft |-> FromInt(10)]}

CfmValues == {Zero, FromInt(50), FromInt(500), FromInt(3000)}

HeightValues == {Zero, FromInt(20)}

FlueTemps == {FromInt(400)}

MinDrafts == {Lit(2, 2), Zero, Lit(0 - 5, 2), Lit(5, 1)}

BaroValues == {None, Lit(2490, 2)}

DraftValues ==
    {Lit(0 - 9, 2), Lit(0 - 8, 2), Lit(0 - 5, 2), Lit(0 - 3, 2), Lit(0 - 1, 2),
     Zero, Lit(8, 2), Lit(9, 2), Lit(25, 2), Lit(3, 1)}

\* Appliances whose category is 'custom' or no category of the table.
ApplianceCustom ==
    [mbh |-> FromInt(150), co2_percent |-> Lit(85, 1), temp_f |-> FromInt(300),
     category |-> "custom"]

ApplianceCatV ==
    [mbh |-> FromInt(150), co2_percent |-> Lit(85, 1), temp_f |-> FromInt(300),
     category |-> "cat_v"]

UncategorisedAppliances == {ApplianceCustom, ApplianceCatV}

\* Appliances that burn nothing (mbh = 0), and one whose CO2 reading is 0.
ApplianceOff ==
    [mbh |-> Zero, co2_percent |-> Lit(85, 1), temp_f |-> FromInt(350),
     category |-> "cat_i_fan"]

ApplianceOffHot ==
    [mbh |-> Zero, co2_percent |-> Lit(90, 1), temp_f |-> FromInt(500),
     fuel_type |-> "oil"]

ApplianceNoCo2 ==
    [mbh |-> FromInt(100), co2_percent |-> Zero, temp_f |-> FromInt(400),
     fuel_type |-> "LPG"]

DegenerateLists ==
    {<<>>, <<ApplianceOff>>, <<ApplianceOff, ApplianceOffHot>>,
     <<ApplianceOffHot, ApplianceOff, ApplianceOff>>,
     <<ApplianceNoCo2>>, <<ApplianceA, ApplianceNoCo2>>,
     <<ApplianceNoCo2, ApplianceB>>}

\* Fuel names: the accepted ones in lower and mixed case, and others.
FuelNames ==
    {"natural_gas", "gas", "ng", "Natural_Gas", "NG", "Gas",
     "lp_gas", "lp", "propane", "lpg", "Propane", "LP_GAS", "Lp", "LPG",
     "oil", "fuel_oil", "#2_oil", "OIL", "Fuel_Oil", "#2_OIL",
     "coal", "Coal", "", "diesel", "natural gas", "wood"}

MbhValues == {FromInt(100), Lit(625, 1), Zero}

Co2Values == {Lit(90, 1), Lit(85, 1), Zero}

CombustionFuels == {"natural_gas", "Propane", "oil", "coal"}

CombustionTemps == {FromInt(300), FromInt(400)}

DraftHeights == {Zero, FromInt(20), FromInt(35)}

\* 70.0001 F is above 70 F by less than the format resolves at 529.67 R.
DraftFlueTemps ==
    {FromInt(70), Lit(700001, 4), FromInt(300), FromInt(400), Zero}

DraftOutsideTemps == {FromInt(70), Zero, FromInt(0 - 20)}

\* The barometric pressure: omitted, at altitude, and 0.
DraftBaroValues == {None, Lit(2490, 2), Zero}

VentTypes == {NoneStr, "", UL441, UL1738, UL103, "Class A Chimney"}

Fittings3 ==
    << <<"tee_cap", FromInt(1)>>, <<"lateral_tee", FromInt(2)>>,
       <<"45_elbow", FromInt(3)>> >>

\* A dictionary with a key that names no fitting but is a key of the vent
\* type tables.
Fittings4 ==
    << <<"base_friction_factor", FromInt(2)>>, <<"90_elbow", FromInt(1)>> >>

FittingsDicts == {<<>>, Fittings1, Fittings2, Fittings3, Fittings4}

LossDiameters == {FromInt(6), FromInt(10)}

VelocitiesFpm == {FromInt(600), Zero}

VelocitiesFps == {FromInt(10), Zero}

AdditionalKs == {Zero, Lit(15, 1), FromInt(0 - 1)}

AdditionalLosses == {Zero, Lit(5, 2)}

\* Temperatures above absolute zero: far apart, close (70.05 F), closer than
\* the format resolves once converted to Rankine (70.0001 F), and near
\* absolute zero.
DensityTemps ==
    {FromInt(0 - 459), FromInt(0 - 20), Zero, FromInt(70), Lit(700001, 4),
     Lit(7005, 2), FromInt(300), FromInt(400), FromInt(2000)}

\* ------------------------------------------------------------------------
\* The calls
\* ------------------------------------------------------------------------

\* The diameter written into the caller's own dictionary.
WriteInPlace(system_config, diameter) == WithDiameter(system_config, diameter)

\* The caller's dictionary after
\*   config = system_config.copy(); config['diameter_inches'] = diameter
\* the write goes to the copy.
WriteToCopy(system_config, diameter) == system_config

\* The caller's list after sorted(appliances, ...), which builds a new list.
AfterSorted(appliances) == appliances

Idle == [op |-> "idle"]

Init ==
    /\ self = NewCalculator
    /\ call = Idle
    /\ result = None
    /\ caller = None

SelectDiameter ==
    /\ call = Idle
    /\ \E cfm \in CfmValues, height_ft \in HeightValues,
          temp_flue_gas_f \in FlueTemps,
          temp_outside_f \in DesignOutsideTemps,
          system_config \in SystemConfigs,
          min_available_draft_inwc \in MinDrafts,
          barometric_pressure_inHg \in BaroValues :
            /\ call' = [op |-> "select_diameter", cfm |-> cfm,
                        height_ft |-> height_ft,
                        temp_flue_gas_f |-> temp_flue_gas_f,
                        temp_outside_f |-> temp_outside_f,
                        system_config |-> system_config,
                        min_available_draft_inwc |-> min_available_draft_inwc,
                        barometric_pressure_inHg |-> barometric_pressure_inHg]
            /\ result' = select_diameter(cfm, height_ft, temp_flue_gas_f,
                                         temp_outside_f, system_config,
                                         min_available_draft_inwc,
                                         barometric_pressure_inHg)
            /\ caller' = [system_config |->
                          WriteToCopy(system_config,
                             self.standard_diameters[
                                Len(self.standard_diameters)])]
    /\ UNCHANGED self

AnalyzeSystem ==
    /\ call = Idle
    /\ \E cfm \in CfmValues, height_ft \in HeightValues,
          temp_flue_gas_f \in FlueTemps, temp_outside_f \in OutsideTemps,
          seg \in ConnectorSet \cup ManifoldSet,
          barometric_pressure_inHg \in DraftBaroValues :
            /\ call' = [op |-> "analyze_system", cfm |-> cfm,
                        diameter_inches |-> seg.diameter_inches,
                        height_ft |-> height_ft,
                        length_ft |-> seg.length_ft,
                        temp_flue_gas_f |-> temp_flue_gas_f,
                        temp_outside_f |-> temp_outside_f,
                        fittings_dict |-> seg.fittings,
                        barometric_pressure_inHg |-> barometric_pressure_inHg]
            /\ result' = analyze_system(cfm, seg.diameter_inches, height_ft,
                                        seg.length_ft, temp_flue_gas_f,
                                        temp_outside_f, seg.fittings,
                                        barometric_pressure_inHg)
            /\ caller' = [fittings_dict |-> seg.fittings]
    /\ UNCHANGED self

CalculateCombinedCfm ==
    /\ call = Idle
    /\ \E appliances \in ApplianceLists \cup DegenerateLists :
            /\ call' = [op |-> "calculate_combined_cfm",
                        appliances |-> appliances]
            /\ result' = calculate_combined_cfm(appliances)
            /\ caller' = [appliances |-> appliances]
    /\ UNCHANGED self

AnalyzeManifoldSystem ==
    /\ call = Idle
    /\ \E appliances \in ApplianceLists, manifold_config \in ManifoldSet,
          temp_outside_f \in DesignOutsideTemps,
          operating_scenario \in Scenarios :
            /\ call' = [op |-> "analyze_manifold_system",
                        appliances |-> appliances,
                        manifold_config |-> manifold_config,
                        temp_outside_f |-> temp_outside_f,
                        operating_scenario |-> operating_scenario]
            /\ result' = analyze_manifold_system(appliances, manifold_config,
                                                 temp_outside_f,
                                                 operating_scenario)
            /\ caller' = [appliances |->
                          IF operating_scenario = "all_minus_one"
                          THEN AfterSorted(appliances) ELSE appliances,
                          manifold_config |-> manifold_config]
    /\ UNCHANGED self

AnalyzeWorstCaseAppliance ==
    /\ call = Idle
    /\ \E appliances \in ApplianceLists, manifold_config \in ManifoldSet,
          temp_outside_f \in DesignOutsideTemps :
       \E connector_configs \in ConnectorConfigs(Len(appliances)) :
            /\ call' = [op |-> "analyze_worst_case_appliance",
                        appliances |-> appliances,
                        connector_configs |-> connector_configs,
                        manifold_config |-> manifold_config,
                        temp_outside_f |-> temp_outside_f]
            /\ result' = analyze_worst_case_appliance(appliances,
                            connector_configs, manifold_config, temp_outside_f)
            /\ caller' = [appliances |-> appliances,
                          connector_configs |-> connector_configs,
                          manifold_config |-> manifold_config]
    /\ UNCHANGED self

CompleteMultiApplianceAnalysis ==
    /\ call = Idle
    /\ \E appliances \in ApplianceLists, manifold_config \in ManifoldSet,
          temp_outside_f \in DesignOutsideTemps :
       \E connector_configs \in ConnectorConfigs(Len(appliances)) :
            /\ call' = [op |-> "complete_multi_appliance_analysis",
                        appliances |-> appliances,
                        connector_configs |-> connector_configs,
                        manifold_config |-> manifold_config,
                        temp_outside_f |-> temp_outside_f]
            /\ result' = complete_multi_appliance_analysis(appliances,
                            connector_configs, manifold_config, temp_outside_f)
            /\ caller' = [appliances |->
                          IF Len(appliances) > 1
                          THEN AfterSorted(appliances) ELSE appliances,
                          connector_configs |-> connector_configs,
                          manifold_config |-> manifold_config]
    /\ UNCHANGED self

CheckAppliancePressureLimits ==
    /\ call = Idle
    /\ \E appliance \in ApplianceSet \cup UncategorisedAppliances,
          draft \in DraftValues :
            /\ call' = [op |-> "check_appliance_pressure_limits",
                        appliance |-> appliance, available_draft |-> draft]
            /\ result' = check_appliance_pressure_limits(appliance, draft)
            /\ caller' = [appliance |-> appliance]
    /\ UNCHANGED self

AirDensity ==
    /\ call = Idle
    /\ \E temp_f \in DensityTemps :
            /\ call' = [op |-> "air_density", temp_f |-> temp_f]
            /\ result' = [rho |-> air_density(temp_f)]
            /\ caller' = None
    /\ UNCHANGED self

MassFlowFromFuelInput ==
    /\ call = Idle
    /\ \E mbh \in MbhValues, co2_percent \in Co2Values,
          fuel_type \in FuelNames :
            /\ call' = [op |-> "mass_flow_from_fuel_input", mbh |-> mbh,
                        co2_percent |-> co2_percent, fuel_type |-> fuel_type]
            /\ result' = mass_flow_from_fuel_input(mbh, co2_percent, fuel_type)
            /\ caller' = None
    /\ UNCHANGED self

CfmFromCombustion ==
    /\ call = Idle
    /\ \E mbh \in MbhValues, co2_percent \in Co2Values,
          temp_f \in CombustionTemps, fuel_type \in CombustionFuels :
            /\ call' = [op |-> "cfm_from_combustion", mbh |-> mbh,
                        co2_percent |-> co2_percent, temp_f |-> temp_f,
                        fuel_type |-> fuel_type]
            /\ result' = cfm_from_combustion(mbh, co2_percent, temp_f,
                                             fuel_type)
            /\ caller' = None
    /\ UNCHANGED self

TheoreticalDraft ==
    /\ call = Idle
    /\ \E height_ft \in DraftHeights, temp_flue_gas_f \in DraftFlueTemps,
          temp_outside_f \in DraftOutsideTemps,
          barometric_pressure_inHg \in DraftBaroValues :
            /\ call' = [op |-> "theoretical_draft", height_ft |-> height_ft,
                        temp_flue_gas_f |-> temp_flue_gas_f,
                        temp_outside_f |-> temp_outside_f,
                        barometric_pressure_inHg |-> barometric_pressure_inHg]
            /\ result' = [draft_inwc |->
                            theoretical_draft(height_ft, temp_flue_gas_f,
                                              temp_outside_f,
                                              barometric_pressure_inHg)]
            /\ caller' = None
    /\ UNCHANGED self

PressureLoss ==
    /\ call = Idle
    /\ \E diameter_inches \in LossDiameters, velocity_fpm \in VelocitiesFpm,
          fittings_dict \in FittingsDicts, vent_type \in VentTypes,
          additional_k \in AdditionalKs,
          additional_pressure_loss \in AdditionalLosses :
            /\ call' = [op |-> "pressure_loss", length_ft |-> FromInt(25),
                        diameter_inches |-> diameter_inches,
                        velocity_fpm |-> velocity_fpm, temp_f |-> FromInt(400),
                        fittings_dict |-> [items |-> fittings_dict],
                        vent_type |-> vent_type,
                        additional_k |-> additional_k,
                        additional_pressure_loss |-> additional_pressure_loss]
            /\ result' = pressure_loss(FromInt(25), diameter_inches,
                                       velocity_fpm, FromInt(400),
                                       fittings_dict, vent_type, additional_k,
                                       additional_pressure_loss)
            /\ caller' = [fittings_dict |-> [items |-> fittings_dict]]
    /\ UNCHANGED self

TotalPressureLoss ==
    /\ call = Idle
    /\ \E system_config \in SystemConfigs, diameter_inches \in LossDiameters,
          velocity_fps \in VelocitiesFps, temp_f \in CombustionTemps :
            /\ call' = [op |-> "total_pressure_loss",
                        system_config |->
                            WithDiameter(system_config, diameter_inches),
                        velocity_fps |-> velocity_fps, temp_f |-> temp_f]
            /\ result' = total_pressure_loss(
                            WithDiameter(system_config, diameter_inches),
                            velocity_fps, temp_f)
            /\ caller' = [system_config |->
                          WithDiameter(system_config, diameter_inches)]
    /\ UNCHANGED self

\* The caller takes the result; the calculator is ready for the next call.
Return ==
    /\ call # Idle
    /\ call' = Idle
    /\ result' = None
    /\ caller' = None
    /\ UNCHANGED self

Next ==
    \/ CheckAppliancePressureLimits
    \/ CalculateCombinedCfm
    \/ SelectDiameter
    \/ AnalyzeSystem
    \/ AnalyzeManifoldSystem
    \/ AnalyzeWorstCaseAppliance
    \/ CompleteMultiApplianceAnalysis
    \/ Return

Spec == Init /\ [][Next]_vars

\* The calls of the single-system methods, without the scenario analyses.
NextCore ==
    \/ CheckAppliancePressureLimits
    \/ AirDensity
    \/ MassFlowFromFuelInput
    \/ CfmFromCombustion
    \/ TheoreticalDraft
    \/ PressureLoss
    \/ TotalPressureLoss
    \/ CalculateCombinedCfm
    \/ SelectDiameter
    \/ Return

SpecCore == Init /\ [][NextCore]_vars

\* The calls of every method.
NextAll ==
    \/ CheckAppliancePressureLimits
    \/ AirDensity
    \/ MassFlowFromFuelInput
    \/ CfmFromCombustion
    \/ TheoreticalDraft
    \/ PressureLoss
    \/ TotalPressureLoss
    \/ CalculateCombinedCfm
    \/ SelectDiameter
    \/ AnalyzeSystem
    \/ AnalyzeManifoldSystem
    \/ AnalyzeWorstCaseAppliance
    \/ CompleteMultiApplianceAnalysis
    \/ Return

SpecAll == Init /\ [][NextAll]_vars

\* ------------------------------------------------------------------------
\* Properties
\* ------------------------------------------------------------------------

AbsF(a) == [m |-> Abs(a.m), e |-> a.e]

\* n units of the relative rounding error of the format (the machine epsilon)
Eps(n) == Norm(1, n, 1 - Digits)

\* |a - b| <= n machine epsilons of |scale|
Within(a, b, scale, n) == Le(AbsF(Sub(a, b)), Mul(Eps(n), AbsF(scale)))

Range(seq) == {seq[i] : i \in 1..Len(seq)}

Count(seq, x) == Cardinality({i \in 1..Len(seq) : seq[i] = x})

\* The call has returned a result (it did not raise).
Returned(op) == call.op = op /\ ~Raised(result)

\* The standard diameters, as the specification lists them.
StandardList ==
    << FromInt(3), FromInt(4), FromInt(5), FromInt(6), FromInt(7), FromInt(8),
       FromInt(10), FromInt(12), FromInt(14), FromInt(16), FromInt(18),
       FromInt(20), FromInt(24), FromInt(30), FromInt(36) >>

\* The option table holds one entry per standard diameter, in list order.
OptionsFollowStandardList(all_options) ==
    /\ Len(all_options) = Len(StandardList)
    /\ \A i \in 1..Len(StandardList) :
          all_options[i].diameter_inches = StandardList[i]
    /\ \A i \in 1..(Len(StandardList) - 1) :
          Lt(all_options[i].diameter_inches, all_options[i + 1].diameter_inches)

\* Option i reaches the minimum available draft the call asked for.
Qualifies(all_options, i) ==
    Ge(all_options[i].available_draft_inwc, call.min_available_draft_inwc)

\* C1: when at least one standard diameter reaches the minimum available
\* draft, select_diameter returns as diameter_inches the smallest standard
\* diameter that reaches it (every smaller one falls short), and all_options
\* holds one entry for every standard diameter, in the ascending order of the
\* standard list.
C1_SmallestQualifyingDiameter ==
    (/\ call.op = "select_diameter"
     /\ \E i \in 1..Len(result.all_options) : Qualifies(result.all_options, i))
    => /\ OptionsFollowStandardList(result.all_options)
       /\ \E i \in 1..Len(result.all_options) :
             /\ result.diameter_inches = StandardList[i]
             /\ Qualifies(result.all_options, i)
             /\ \A j \in 1..(i - 1) : ~Qualifies(result.all_options, j)
             /\ result.available_draft_inwc
                   = result.all_options[i].available_draft_inwc

\* A selection in the middle of the list: smaller diameters fall short,
\* larger ones qualify as well.
C1_Witness ==
    /\ call.op = "select_diameter"
    /\ \E i \in 2..(Len(StandardList) - 1) :
          /\ result.diameter_inches = StandardList[i]
          /\ ~Qualifies(result.all_options, i - 1)
          /\ Qualifies(result.all_options, i + 1)

\* C2: analyze_worst_case_appliance returns as worst_case an entry of the
\* per-appliance breakdown whose total available draft no other appliance
\* undercuts, whichever appliance has the largest MBH input.
C2_WorstCaseIsMinimumTotalDraft ==
    Returned("analyze_worst_case_appliance")
    => /\ \E i \in 1..Len(result.all_appliances) :
             result.worst_case = result.all_appliances[i]
       /\ \A j \in 1..Len(result.all_appliances) :
             ~Lt(result.all_appliances[j].total_available_draft,
                 result.worst_case.total_available_draft)

\* The worst case is not the largest appliance: an appliance of larger MBH
\* has strictly more total available draft.
C2_Witness ==
    /\ Returned("analyze_worst_case_appliance")
    /\ \E j \in 1..Len(result.all_appliances) :
          /\ Gt(result.all_appliances[j].appliance.mbh,
                result.worst_case.appliance.mbh)
          /\ Gt(result.all_appliances[j].total_available_draft,
                result.worst_case.total_available_draft)

\* Appliance k has the largest (smallest) mbh of the list.
IsMaxMbh(appliances, k) ==
    \A j \in 1..Len(appliances) : Le(appliances[j].mbh, appliances[k].mbh)

IsMinMbh(appliances, k) ==
    \A j \in 1..Len(appliances) : Ge(appliances[j].mbh, appliances[k].mbh)

\* operating holds the appliances of the list except the one at position k.
AllExcept(operating, appliances, k) ==
    /\ Len(operating) = Len(appliances) - 1
    /\ \A a \in Range(appliances) :
          Count(operating, a)
             = Count(appliances, a) - (IF a = appliances[k] THEN 1 ELSE 0)

\* C3: the operating set analyze_manifold_system returns follows the
\* scenario: 'all' is the whole list; 'all_minus_one' is the list without one
\* appliance of largest mbh (num_operating = N - 1); 'single_largest' is one
\* appliance of largest mbh; 'single_smallest' is one appliance of smallest
\* mbh; and the mixing is computed over exactly that set.
C3_OperatingSetFollowsScenario ==
    Returned("analyze_manifold_system")
    => /\ result.num_operating = Len(result.operating_appliances)
       /\ result.combined.num_appliances = result.num_operating
       /\ call.operating_scenario = "all"
             => result.operating_appliances = call.appliances
       /\ call.operating_scenario = "all_minus_one"
             => /\ result.num_operating = Len(call.appliances) - 1
                /\ \E k \in 1..Len(call.appliances) :
                      /\ IsMaxMbh(call.appliances, k)
                      /\ AllExcept(result.operating_appliances,
                                   call.appliances, k)
       /\ call.operating_scenario = "single_largest"
             => /\ result.num_operating = 1
                /\ \E k \in 1..Len(call.appliances) :
                      /\ IsMaxMbh(call.appliances, k)
                      /\ result.operating_appliances[1] = call.appliances[k]
       /\ call.operating_scenario = "single_smallest"
             => /\ result.num_operating = 1
                /\ \E k \in 1..Len(call.appliances) :
                      /\ IsMinMbh(call.appliances, k)
                      /\ result.operating_appliances[1] = call.appliances[k]

\* 'all_minus_one' over three appliances of which the largest is not the
\* first: two remain.
C3_Witness ==
    /\ Returned("analyze_manifold_system")
    /\ call.operating_scenario = "all_minus_one"
    /\ Len(call.appliances) = 3
    /\ Gt(call.appliances[2].mbh, call.appliances[1].mbh)
    /\ Gt(call.appliances[2].mbh, call.appliances[3].mbh)
    /\ result.num_operating = 2

\* A full scenario result of analyze_manifold_system.
IsScenarioResult(r, scenario) ==
    /\ r # None
    /\ r.scenario = scenario
    /\ r.num_operating >= 1
    /\ "combined" \in DOMAIN r
    /\ "common_vent" \in DOMAIN r

\* C4: complete_multi_appliance_analysis returns all_minus_one and
\* single_smallest as None exactly when one appliance is configured and as
\* full scenario results when more than one is; all_operating,
\* single_largest and worst_case are results in both cases.
C4_OptionalScenarios ==
    Returned("complete_multi_appliance_analysis")
    => /\ (result.all_minus_one = None) <=> (Len(call.appliances) = 1)
       /\ (result.single_smallest = None) <=> (Len(call.appliances) = 1)
       /\ Len(call.appliances) > 1
             => /\ IsScenarioResult(result.all_minus_one, "all_minus_one")
                /\ result.all_minus_one.num_operating
                      = Len(call.appliances) - 1
                /\ IsScenarioResult(result.single_smallest, "single_smallest")
       /\ IsScenarioResult(result.all_operating, "all")
       /\ IsScenarioResult(result.single_largest, "single_largest")
       /\ result.worst_case # None
       /\ Len(result.worst_case.all_appliances) = Len(call.appliances)
       /\ result.num_appliances = Len(call.appliances)

\* One appliance configured: the two optional scenarios are None.
C4_Witness ==
    /\ Returned("complete_multi_appliance_analysis")
    /\ Len(call.appliances) = 1
    /\ result.all_minus_one = None
    /\ result.single_smallest = None
    /\ result.all_operating.num_operating = 1

\* C5: when no standard diameter reaches the minimum available draft,
\* select_diameter does not raise: it returns diameter_inches = None, an
\* error message, and all_options with the evaluated option of every
\* standard diameter.
C5_NoQualifyingDiameterSentinel ==
    (/\ call.op = "select_diameter"
     /\ \A i \in 1..Len(result.all_options) : ~Qualifies(result.all_options, i))
    => /\ ~Raised(result)
       /\ result.diameter_inches = None
       /\ "error" \in DOMAIN result
       /\ result.error # ""
       /\ OptionsFollowStandardList(result.all_options)
       /\ \A i \in 1..Len(result.all_options) :
             /\ ~result.all_options[i].meets_requirement
             /\ "available_draft_inwc" \in DOMAIN result.all_options[i]
             /\ "pressure_loss_inwc" \in DOMAIN result.all_options[i]

\* A sweep that exhausts the list although the chimney has some draft.
C5_Witness ==
    /\ call.op = "select_diameter"
    /\ result.diameter_inches = None
    /\ Len(result.all_options) = Len(StandardList)
    /\ result.all_options[1].theoretical_draft_inwc.m > 0

\* C6: the breakdown of analyze_worst_case_appliance has one entry per input
\* appliance, in input order (appliance_id = index + 1, counted from 1); in
\* every entry total_available_draft = connector_draft + manifold_draft, and
\* manifold_draft is the available draft of the manifold under scenario
\* 'all', the same in every entry.
C6_PerApplianceBreakdown ==
    Returned("analyze_worst_case_appliance")
    => Bind(analyze_manifold_system(call.appliances, call.manifold_config,
                                    call.temp_outside_f, "all"),
            LAMBDA manifold_all :
         /\ Len(result.all_appliances) = Len(call.appliances)
         /\ \A i \in 1..Len(result.all_appliances) :
               Bind(result.all_appliances[i], LAMBDA entry :
                 /\ entry.appliance_id = i
                 /\ entry.appliance = call.appliances[i]
                 /\ entry.total_available_draft
                       = Add(entry.connector_draft, entry.manifold_draft)
                 /\ entry.connector_draft
                       = entry.connector_result.connector.available_draft_inwc
                 /\ entry.connector_result.appliance = call.appliances[i]
                 /\ entry.manifold_draft
                       = manifold_all.common_vent.available_draft_inwc
                 /\ entry.manifold_result.scenario = "all"
                 /\ entry.manifold_draft
                       = result.all_appliances[1].manifold_draft))

\* Three appliances whose connectors leave different drafts, on a manifold
\* that has a pressure loss of its own.
C6_Witness ==
    /\ Returned("analyze_worst_case_appliance")
    /\ Len(result.all_appliances) = 3
    /\ result.all_appliances[1].manifold_draft.m # 0
    /\ result.all_appliances[1].connector_draft
          # result.all_appliances[2].connector_draft
    /\ result.all_appliances[2].connector_draft
          # result.all_appliances[3].connector_draft

\* The sum of the mass flows of the entries 1..i, added in order.
RECURSIVE SumMass(_, _)
SumMass(appliance_results, i) ==
    IF i = 0 THEN Zero
    ELSE Add(SumMass(appliance_results, i - 1),
             appliance_results[i].mass_flow_lbm_min)

\* The sum of mass flow x Rankine temperature of the entries 1..i.
RECURSIVE SumMassTemp(_, _)
SumMassTemp(appliance_results, i) ==
    IF i = 0 THEN Zero
    ELSE Add(SumMassTemp(appliance_results, i - 1),
             Mul(appliance_results[i].mass_flow_lbm_min,
                 Add(appliance_results[i].temp_f, Lit(45967, 2))))

\* The sum of the individual CFMs of the entries 1..i.
RECURSIVE SumCfm(_, _)
SumCfm(appliance_results, i) ==
    IF i = 0 THEN Zero
    ELSE Add(SumCfm(appliance_results, i - 1), appliance_results[i].cfm)

\* C7: for a positive total mass flow, calculate_combined_cfm reports as
\* mixed temperature the mass-flow-weighted mean of the appliances' Rankine
\* temperatures, converted back to Fahrenheit, and as total_cfm the total
\* mass flow divided by the density at the mixed temperature, so that
\* total_cfm x density(mixed temperature) is the sum of the per-appliance
\* mass flows (to the rounding of one multiplication and one division).
C7_MassWeightedMixing ==
    (/\ Returned("calculate_combined_cfm")
     /\ Gt(result.total_mass_flow_lbm_min, Zero))
    => Bind(Len(result.appliance_results), LAMBDA n :
         /\ n = Len(call.appliances)
         /\ \A i \in 1..n :
               /\ result.appliance_results[i].temp_f = call.appliances[i].temp_f
               /\ Gt(result.appliance_results[i].mass_flow_lbm_min, Zero)
         /\ result.total_mass_flow_lbm_min
               = SumMass(result.appliance_results, n)
         /\ result.weighted_avg_temp_f
               = Sub(Div(SumMassTemp(result.appliance_results, n),
                         result.total_mass_flow_lbm_min),
                     Lit(45967, 2))
         /\ result.mixing_info.mixed_temp_f = result.weighted_avg_temp_f
         /\ result.mixing_info.density_at_mixed_temp
               = Div(Lit(21162, 1),
                     Mul(Lit(5335, 2),
                         Add(result.weighted_avg_temp_f, Lit(45967, 2))))
         /\ result.total_cfm
               = Div(result.total_mass_flow_lbm_min,
                     result.mixing_info.density_at_mixed_temp)
         /\ Within(Mul(result.total_cfm,
                       result.mixing_info.density_at_mixed_temp),
                   result.total_mass_flow_lbm_min,
                   result.total_mass_flow_lbm_min, 2))

\* Appliances at different temperatures: the mixed temperature lies strictly
\* between them, and the total is not the plain sum of the individual CFMs.
C7_Witness ==
    /\ Returned("calculate_combined_cfm")
    /\ Len(call.appliances) = 3
    /\ Gt(call.appliances[1].temp_f, result.weighted_avg_temp_f)
    /\ Lt(call.appliances[2].temp_f, result.weighted_avg_temp_f)
    /\ result.total_cfm
          # SumCfm(result.appliance_results, 3)

\* The appliances of the call all have the same temperature and mass flow.
IdenticalAppliances ==
    /\ Returned("calculate_combined_cfm")
    /\ Gt(result.total_mass_flow_lbm_min, Zero)
    /\ \A i \in 1..Len(result.appliance_results) :
          /\ result.appliance_results[i].temp_f
                = result.appliance_results[1].temp_f
          /\ result.appliance_results[i].mass_flow_lbm_min
                = result.appliance_results[1].mass_flow_lbm_min
          /\ result.appliance_results[i].cfm = result.appliance_results[1].cfm

\* C8 as stated: on N identical appliances the mixed temperature is exactly
\* the shared temperature and total_cfm is N times the individual CFM.
C8_ExactlyShared ==
    IdenticalAppliances
    => /\ result.weighted_avg_temp_f = result.appliance_results[1].temp_f
       /\ result.total_cfm
             = Mul(FromInt(Len(result.appliance_results)),
                   result.appliance_results[1].cfm)

\* C8, amended: on N identical appliances the mixed temperature is the
\* shared temperature, and total_cfm is N times the individual CFM, both to
\* floating-point rounding: within 4N machine epsilons of the absolute
\* (Rankine) temperature and of N times the individual CFM.
C8_SharedWithinRounding ==
    IdenticalAppliances
    => Bind(Len(result.appliance_results), LAMBDA n :
         /\ Within(result.weighted_avg_temp_f,
                   result.appliance_results[1].temp_f,
                   result.appliance_results[1].temp_r, 4 * n)
         /\ Within(result.total_cfm,
                   Mul(FromInt(n), result.appliance_results[1].cfm),
                   Mul(FromInt(n), result.appliance_results[1].cfm), 4 * n))

\* Identical appliances whose mixed temperature is the shared one only up to
\* rounding.
C8_Witness ==
    /\ IdenticalAppliances
    /\ Len(result.appliance_results) >= 2
    /\ result.weighted_avg_temp_f # result.appliance_results[1].temp_f
    /\ Within(result.weighted_avg_temp_f, result.appliance_results[1].temp_f,
              result.appliance_results[1].temp_r, 4)

\* available = theoretical - loss in a record, with the sign that follows:
\* a loss above the theoretical draft leaves a negative available draft.
DraftBalance(r) ==
    /\ r.available_draft_inwc
          = Sub(r.theoretical_draft_inwc, r.pressure_loss_inwc)
    /\ r.pressure_loss_inwc = r.loss_breakdown.total
    /\ Gt(r.pressure_loss_inwc, r.theoretical_draft_inwc)
          => r.available_draft_inwc.m < 0
    /\ Lt(r.pressure_loss_inwc, r.theoretical_draft_inwc)
          => r.available_draft_inwc.m > 0

\* C9: every analyze_system result and every option of select_diameter
\* (the selected one included) has available_draft_inwc =
\* theoretical_draft_inwc - pressure_loss_inwc, with no sign flip.
C9_AvailableIsTheoreticalMinusLoss ==
    /\ Returned("analyze_system") => DraftBalance(result)
    /\ Returned("select_diameter")
          => /\ \A i \in 1..Len(result.all_options) :
                   DraftBalance(result.all_options[i])
             /\ "error" \notin DOMAIN result => DraftBalance(result)

\* A system whose losses exceed its positive theoretical draft.
C9_Witness ==
    /\ Returned("analyze_system")
    /\ result.theoretical_draft_inwc.m > 0
    /\ Gt(result.pressure_loss_inwc, result.theoretical_draft_inwc)
    /\ result.available_draft_inwc.m < 0

\* The pressure range of each category, in in. w.c., as the specification's
\* category table gives it.
CategoryRange ==
    "cat_i_fan" :> <<Lit(0 - 8, 2), Lit(0 - 3, 2)>>
    @@ "cat_ii" :> <<Lit(0 - 8, 2), Lit(0 - 3, 2)>>
    @@ "cat_iii" :> <<Zero, Lit(8, 2)>>
    @@ "cat_iv" :> <<Lit(0 - 5, 2), Lit(25, 2)>>

\* C10: for an appliance of a known category,
\* check_appliance_pressure_limits reports compliant exactly when
\* min <= draft <= max of the category's range, bounds included; below min
\* it reports 'too_negative' and recommends a draft control device, above
\* max 'too_positive' and recommends a draft inducer.
C10_PressureLimits ==
    (/\ Returned("check_appliance_pressure_limits")
     /\ "category" \in DOMAIN call.appliance)
    => (call.appliance.category \in DOMAIN CategoryRange
        => Bind(CategoryRange[call.appliance.category], LAMBDA range :
             /\ result.compliant \in {PyTrue, PyFalse}
             /\ (result.compliant = PyTrue)
                   <=> (/\ Le(range[1], call.available_draft)
                        /\ Le(call.available_draft, range[2]))
             /\ result.required_range = range
             /\ Lt(call.available_draft, range[1])
                   => /\ result.issue = "too_negative"
                      /\ result.recommendation
                            = "Consider draft control device"
             /\ Gt(call.available_draft, range[2])
                   => /\ result.issue = "too_positive"
                      /\ result.recommendation
                            = "Consider draft inducer or larger diameter"))

\* A draft exactly on the lower bound of the category's range is compliant.
C10_Witness ==
    /\ Returned("check_appliance_pressure_limits")
    /\ "category" \in DOMAIN call.appliance
    /\ call.appliance.category = "cat_i_fan"
    /\ call.available_draft = Lit(0 - 8, 2)
    /\ result.compliant = PyTrue

\* The appliance of the call names none of the four categories of the
\* specification's table: it has no category, or 'custom', or another name.
NoKnownCategory ==
    \/ "category" \notin DOMAIN call.appliance
    \/ call.appliance.category \notin DOMAIN CategoryRange

\* C11: check_appliance_pressure_limits never fails on an appliance whose
\* category is missing, 'custom' or otherwise unknown: for every available
\* draft it returns the indeterminate sentinel, a result whose compliant
\* field is None and which carries no required range, and raises nothing.
C11_UnknownCategorySentinel ==
    (call.op = "check_appliance_pressure_limits" /\ NoKnownCategory)
    => /\ ~Raised(result)
       /\ "required_range" \notin DOMAIN result
       /\ "compliant" \in DOMAIN result
       /\ result.compliant = None
       /\ result.compliant # PyTrue

\* A 'custom' appliance whose draft lies inside the range of cat_i_fan gets
\* the sentinel.
C11_Witness ==
    /\ call.op = "check_appliance_pressure_limits"
    /\ "category" \in DOMAIN call.appliance
    /\ call.appliance.category = "custom"
    /\ call.available_draft = Lit(0 - 5, 2)
    /\ result.compliant = None

\* The names the specification accepts for each fuel, in the spellings the
\* calls use.
NaturalGasNames == {"natural_gas", "gas", "ng", "Natural_Gas", "NG", "Gas"}

LpGasNames ==
    {"lp_gas", "lp", "propane", "lpg", "Propane", "LP_GAS", "Lp", "LPG"}

OilNames == {"oil", "fuel_oil", "#2_oil", "OIL", "Fuel_Oil", "#2_OIL"}

\* The outcome is the one of the canonical fuel, and a result echoes its name.
SameAsCanonical(canonical) ==
    /\ result = mass_flow_from_fuel_input(call.mbh, call.co2_percent, canonical)
    /\ ~Raised(result) => result.fuel_type = canonical

\* C12: mass_flow_from_fuel_input accepts, in any letter case, exactly the
\* names natural_gas/gas/ng, lp_gas/lp/propane/lpg and oil/fuel_oil/#2_oil;
\* an alias gives the outcome of its canonical fuel and echoes the canonical
\* name; every other fuel string ends in ValueError, whatever the other
\* arguments are, and never in a result.
C12_FuelNames ==
    call.op = "mass_flow_from_fuel_input"
    => /\ call.fuel_type \in NaturalGasNames => SameAsCanonical("natural_gas")
       /\ call.fuel_type \in LpGasNames => SameAsCanonical("lp_gas")
       /\ call.fuel_type \in OilNames => SameAsCanonical("oil")
       /\ call.fuel_type \in NaturalGasNames \cup LpGasNames \cup OilNames
             => result # Raise("ValueError")
       /\ call.fuel_type \notin NaturalGasNames \cup LpGasNames \cup OilNames
             => result = Raise("ValueError")

\* An upper-case alias of oil returns the oil result.
C12_Witness ==
    /\ Returned("mass_flow_from_fuel_input")
    /\ call.fuel_type = "#2_OIL"
    /\ result.fuel_type = "oil"
    /\ result.M_factor
          = Mul(Lit(72, 2), Add(Lit(12, 2), Div(Lit(144, 1), call.co2_percent)))

RecognizedNames == NaturalGasNames \cup LpGasNames \cup OilNames

\* The fuel of an appliance: appliance.get('fuel_type', 'natural_gas').
FuelOf(appliance) == Get(appliance, "fuel_type", "natural_gas")

\* C13: with a CO2 percentage of 0 and a recognized fuel,
\* mass_flow_from_fuel_input ends in an error and returns no mass-flow
\* result; so do cfm_from_combustion, and calculate_combined_cfm when one of
\* its appliances has a CO2 percentage of 0.
C13_ZeroCo2IsAnError ==
    /\ (/\ call.op \in {"mass_flow_from_fuel_input", "cfm_from_combustion"}
        /\ call.co2_percent = Zero
        /\ call.fuel_type \in RecognizedNames)
       => /\ Raised(result)
          /\ result = Raise("ZeroDivisionError")
    /\ (/\ call.op = "calculate_combined_cfm"
        /\ \E i \in 1..Len(call.appliances) :
              call.appliances[i].co2_percent = Zero
        /\ \A i \in 1..Len(call.appliances) :
              FuelOf(call.appliances[i]) \in RecognizedNames)
       => /\ Raised(result)
          /\ result = Raise("ZeroDivisionError")

\* A list whose second appliance has a CO2 percentage of 0 ends in the error.
C13_Witness ==
    /\ call.op = "calculate_combined_cfm"
    /\ Len(call.appliances) = 2
    /\ call.appliances[1].co2_percent # Zero
    /\ call.appliances[2].co2_percent = Zero
    /\ result = Raise("ZeroDivisionError")

\* The fitting types of the K-value tables.
FittingTypes ==
    {"entrance", "15_elbow", "30_elbow", "45_elbow", "90_elbow",
     "straight_tee", "90_tee_branch", "lateral_tee", "exit",
     "termination_cap", "tee_cap"}

\* The base friction factor of each known profile.
ProfileBaseFriction ==
    UL441 :> Lit(40, 2) @@ UL1738 :> Lit(27, 2) @@ UL103 :> Lit(30, 2)

\* The profile the specification resolves for a vent type: the named one
\* for the three known names, the generic one otherwise.
ProfileFor(vent_type) ==
    IF vent_type \in DOMAIN ProfileBaseFriction
    THEN [base |-> ProfileBaseFriction[vent_type],
          k |-> [f \in FittingTypes |->
                    self.fitting_coefficients_by_vent_type[vent_type][f]]]
    ELSE [base |-> Lit(3, 1),
          k |-> [f \in FittingTypes |-> self.fittings[f]]]

\* The entries of a fittings dictionary whose key is a fitting type.
SuppliedTypes(fittings_dict) ==
    {fittings_dict[i][1] : i \in 1..Len(fittings_dict)} \cap FittingTypes

\* The result of pressure_loss uses the base friction factor and the
\* K-values of the given profile.
UsesProfile(profile) ==
    /\ result.base_friction_factor = profile.base
    /\ result.friction_term
          = Mul(profile.base, Div(call.length_ft, call.diameter_inches))
    /\ \A f \in SuppliedTypes(call.fittings_dict.items) :
          \E i \in 1..Len(result.fitting_breakdown) :
             /\ result.fitting_breakdown[i].fitting_type = f
             /\ result.fitting_breakdown[i].k_each = profile.k[f]

\* C14: pressure_loss resolves its profile from the vent type: one of the
\* three known names uses that profile's base friction factor (0.40, 0.27,
\* 0.30) and K-values; a missing, empty or unknown vent type uses the
\* generic profile (base friction 0.3, generic K-table), and nothing is
\* raised.
C14_ProfileFromVentType ==
    call.op = "pressure_loss"
    => /\ ~Raised(result)
       /\ UsesProfile(ProfileFor(call.vent_type))
       /\ result.vent_type
             = (IF call.vent_type \in {NoneStr, ""} THEN "Generic"
                ELSE call.vent_type)

\* A 90-degree elbow in a UL441 vent is taken at K = 0.75, not at the
\* generic 0.9.
C14_Witness ==
    /\ Returned("pressure_loss")
    /\ call.vent_type = UL441
    /\ result.base_friction_factor = Lit(40, 2)
    /\ \E i \in 1..Len(result.fitting_breakdown) :
          /\ result.fitting_breakdown[i].fitting_type = "90_elbow"
          /\ result.fitting_breakdown[i].k_each = Lit(75, 2)
          /\ self.fittings["90_elbow"] = Lit(9, 1)

\* The table pressure_loss resolves for the vent type of the call.
ResolvedTable ==
    IF call.vent_type \in {UL441, UL1738, UL103}
    THEN self.fitting_coefficients_by_vent_type[call.vent_type]
    ELSE self.fittings

\* K-value x count of one supplied fitting: K from the resolved table, or
\* else from the generic table, or else nothing.
KTimesCount(item) ==
    IF item[1] \in DOMAIN ResolvedTable THEN Mul(ResolvedTable[item[1]], item[2])
    ELSE IF item[1] \in DOMAIN self.fittings
    THEN Mul(self.fittings[item[1]], item[2])
    ELSE Zero

\* The sum of K-value x count over the first n supplied fittings.
RECURSIVE SumK(_, _)
SumK(items, n) ==
    IF n = 0 THEN Zero ELSE Add(SumK(items, n - 1), KTimesCount(items[n]))

\* The fitting types named by the breakdown of the result.
BreakdownTypes ==
    {result.fitting_breakdown[i].fitting_type :
        i \in 1..Len(result.fitting_breakdown)}

\* C15: in pressure_loss, sum_k is the sum over the supplied fittings of
\* K-value x count, K taken from the table resolved for the vent type or
\* else from the generic table, plus additional_k only when it is above 0;
\* a fitting type in neither table adds nothing, raises nothing and is
\* absent from the fitting breakdown.
C15_SumOfFittingK ==
    call.op = "pressure_loss"
    => Bind(call.fittings_dict.items, LAMBDA items :
         /\ ~Raised(result)
         /\ result.sum_k
               = (IF Gt(call.additional_k, Zero)
                  THEN Add(SumK(items, Len(items)), call.additional_k)
                  ELSE SumK(items, Len(items)))
         /\ \A i \in 1..Len(items) :
               items[i][1] \in BreakdownTypes
                  <=> items[i][1] \in DOMAIN ResolvedTable
                                        \cup DOMAIN self.fittings
         /\ "additional_k_resistance" \in BreakdownTypes
               <=> Gt(call.additional_k, Zero)
         /\ \A i \in 1..Len(result.fitting_breakdown) :
               result.fitting_breakdown[i].k_total
                  = Mul(result.fitting_breakdown[i].k_each,
                        result.fitting_breakdown[i].quantity))

\* Three dampers of a type in no table and an additional K of -1 leave
\* sum_k at the K of the one 45-degree elbow.
C15_Witness ==
    /\ Returned("pressure_loss")
    /\ call.fittings_dict.items = Fittings2
    /\ call.additional_k = FromInt(0 - 1)
    /\ call.vent_type = UL1738
    /\ result.sum_k = Lit(15, 2)
    /\ BreakdownTypes = {"45_elbow"}

\* (velocity_fpm / 1096.2)^2 of the call
SquaredVelocityRatio ==
    Mul(Div(call.velocity_fpm, Lit(10962, 1)),
        Div(call.velocity_fpm, Lit(10962, 1)))

\* C16: every pressure_loss result satisfies the breakdown identities:
\* friction_term = base friction x (length / diameter); calculated_loss =
\* (friction_term + sum_k) x density x (velocity_fpm / 1096.2)^2; friction and
\* fittings are their terms x density x the same velocity term, and add up to
\* calculated_loss (to the rounding of the additions and multiplications);
\* total = calculated_loss + additional_pressure_loss.
C16_BreakdownIdentities ==
    call.op = "pressure_loss"
    => /\ ~Raised(result)
       /\ result.friction_term
             = Mul(result.base_friction_factor,
                   Div(call.length_ft, call.diameter_inches))
       /\ result.density_lbm_ft3
             = Div(Lit(21162, 1),
                   Mul(Lit(5335, 2), Add(call.temp_f, Lit(45967, 2))))
       /\ result.calculated_loss
             = Mul(Mul(Add(result.friction_term, result.sum_k),
                       result.density_lbm_ft3),
                   SquaredVelocityRatio)
       /\ result.friction
             = Mul(Mul(result.friction_term, result.density_lbm_ft3),
                   SquaredVelocityRatio)
       /\ result.fittings
             = Mul(Mul(result.sum_k, result.density_lbm_ft3),
                   SquaredVelocityRatio)
       /\ Within(Add(result.friction, result.fittings),
                 result.calculated_loss, result.calculated_loss, 4)
       /\ result.additional_pressure_loss = call.additional_pressure_loss
       /\ result.total
             = Add(result.calculated_loss, call.additional_pressure_loss)

\* A moving flow through fittings with an additional fixed loss: friction and
\* fitting loss are both positive and the total exceeds the calculated loss.
C16_Witness ==
    /\ Returned("pressure_loss")
    /\ Gt(call.velocity_fpm, Zero)
    /\ Gt(call.additional_pressure_loss, Zero)
    /\ Gt(result.friction, Zero)
    /\ Gt(result.fittings, Zero)
    /\ Gt(result.total, result.calculated_loss)

\* pressure_loss for a segment's length, diameter and fittings at
\* velocity_fps x 60, with no vent type, additional K or additional loss.
SegmentLoss(segment, diameter, velocity_fps, temp_f) ==
    pressure_loss(segment.length_ft, diameter,
                  Mul(velocity_fps, FromInt(60)), temp_f,
                  IF "fittings" \in DOMAIN segment THEN segment.fittings
                  ELSE <<>>,
                  NoneStr, Zero, Zero)

\* The losses reported are those of the segment under the generic profile.
IsSegmentLoss(losses, loss) ==
    /\ losses.friction = loss.friction
    /\ losses.total_fittings = loss.fittings
    /\ losses.total = loss.total
    /\ losses.total = loss.calculated_loss
    /\ losses.fittings = loss.fitting_breakdown
    /\ losses.details.vent_type = "Generic"
    /\ losses.details.base_friction_factor = Lit(3, 1)
    /\ losses.details.additional_k = Zero
    /\ losses.details.additional_pressure_loss = Zero
    /\ "additional_k_resistance"
          \notin {losses.fittings[i].fitting_type : i \in 1..Len(losses.fittings)}

\* C17: total_pressure_loss(segment, velocity_fps, temp) gives the friction,
\* fitting and total loss of pressure_loss called with the segment's length,
\* diameter and fittings at velocity_fps x 60, with no vent type and no
\* additional K or additional pressure loss; the options of select_diameter
\* are computed the same way, so the generic profile is always used and a
\* vent type or additional-loss field carried by the segment changes nothing.
C17_TotalLossUsesGenericProfile ==
    /\ call.op = "total_pressure_loss"
          => /\ ~Raised(result)
             /\ IsSegmentLoss(result,
                   SegmentLoss(call.system_config,
                               call.system_config.diameter_inches,
                               call.velocity_fps, call.temp_f))
    /\ Returned("select_diameter")
          => \A i \in 1..Len(result.all_options) :
                Bind(result.all_options[i], LAMBDA option :
                   /\ IsSegmentLoss(option.loss_breakdown,
                         SegmentLoss(call.system_config,
                                     option.diameter_inches,
                                     option.velocity_fps,
                                     call.temp_flue_gas_f))
                   /\ option.pressure_loss_inwc = option.loss_breakdown.total)

\* A segment that carries a UL441 vent type, an additional K and an additional
\* pressure loss is computed with the generic profile and without them.
C17_Witness ==
    /\ Returned("total_pressure_loss")
    /\ "vent_type" \in DOMAIN call.system_config
    /\ call.system_config.vent_type = UL441
    /\ Gt(call.system_config.additional_k, Zero)
    /\ Gt(call.system_config.additional_pressure_loss, Zero)
    /\ Gt(call.velocity_fps, Zero)
    /\ result.details.vent_type = "Generic"
    /\ result.details.base_friction_factor = Lit(3, 1)
    /\ Gt(result.total, Zero)

\* Every appliance of the call burns nothing, with a CO2 reading above 0 and a
\* recognized fuel.
AllAppliancesOff ==
    /\ call.op = "calculate_combined_cfm"
    /\ Len(call.appliances) >= 1
    /\ \A i \in 1..Len(call.appliances) :
          /\ call.appliances[i].mbh = Zero
          /\ Gt(call.appliances[i].co2_percent, Zero)
          /\ FuelOf(call.appliances[i]) \in RecognizedNames

\* C18: when the total mass flow of the given appliances is zero,
\* calculate_combined_cfm takes the first appliance's temperature as the
\* mixed temperature and reports a total_cfm of 0; it does not divide by the
\* zero total, so appliances that all burn nothing give a result, not an error.
C18_ZeroMassFlowFallback ==
    /\ AllAppliancesOff
          => /\ ~Raised(result)
             /\ result.total_mass_flow_lbm_min = Zero
    /\ (/\ Returned("calculate_combined_cfm")
        /\ result.total_mass_flow_lbm_min = Zero)
          => /\ result.weighted_avg_temp_f = call.appliances[1].temp_f
             /\ result.mixing_info.mixed_temp_f = call.appliances[1].temp_f
             /\ result.mixing_info.density_at_mixed_temp
                   = Div(Lit(21162, 1),
                         Mul(Lit(5335, 2),
                             Add(call.appliances[1].temp_f, Lit(45967, 2))))
             /\ result.total_cfm = Zero
             /\ result.num_appliances = Len(call.appliances)

\* Three idle appliances, the first at 500 F and the others at 350 F: the
\* mixed temperature is 500 F.
C18_Witness ==
    /\ Returned("calculate_combined_cfm")
    /\ Len(call.appliances) = 3
    /\ call.appliances[1].temp_f = FromInt(500)
    /\ call.appliances[2].temp_f = FromInt(350)
    /\ result.total_mass_flow_lbm_min = Zero
    /\ result.weighted_avg_temp_f = FromInt(500)
    /\ result.total_cfm = Zero

\* 1 / (temp_f + 459.67), as theoretical_draft computes it.
ReciprocalRankine(temp_f) == Div(FromInt(1), Add(temp_f, Lit(45967, 2)))

\* The call is theoretical_draft with a flue warmer than the outside air.
WarmerFlue ==
    /\ call.op = "theoretical_draft"
    /\ Gt(call.temp_flue_gas_f, call.temp_outside_f)

\* The barometric pressure is omitted or above 0.
PositivePressure ==
    \/ call.barometric_pressure_inHg = None
    \/ call.barometric_pressure_inHg.m > 0

\* Neither the height nor a given barometric pressure is below 0.
NoNegativeFactor ==
    /\ call.height_ft.m >= 0
    /\ PositivePressure \/ call.barometric_pressure_inHg = Zero

\* C19 as stated: with a flue warmer than the outside air the theoretical
\* draft is always positive, and with equal temperatures it is 0.
C19_AlwaysPositive ==
    /\ WarmerFlue => result.draft_inwc.m > 0
    /\ (/\ call.op = "theoretical_draft"
        /\ call.temp_flue_gas_f = call.temp_outside_f)
          => result.draft_inwc = Zero

\* C19, amended: with a flue warmer than the outside air, a height of 0 or
\* more and a barometric pressure omitted or of 0 or more, the theoretical
\* draft is never negative; for a height above 0 and a barometric pressure
\* omitted or above 0 it is positive unless the two reciprocal absolute
\* temperatures round to the same number; with a height of 0, a barometric
\* pressure of 0 or equal temperatures it is 0.
C19_PositiveForPositiveHeight ==
    /\ (WarmerFlue /\ NoNegativeFactor)
          => /\ result.draft_inwc.m >= 0
             /\ (/\ call.height_ft.m > 0
                 /\ PositivePressure
                 /\ ReciprocalRankine(call.temp_outside_f)
                       # ReciprocalRankine(call.temp_flue_gas_f))
                   => result.draft_inwc.m > 0
    /\ (/\ call.op = "theoretical_draft"
        /\ \/ call.temp_flue_gas_f = call.temp_outside_f
           \/ call.height_ft = Zero
           \/ call.barometric_pressure_inHg = Zero)
          => result.draft_inwc = Zero

\* A 20 ft stack at 400 F against 70 F outside air has a positive draft; the
\* same stack with no height has none.
C19_Witness ==
    /\ WarmerFlue
    /\ call.height_ft = FromInt(20)
    /\ call.temp_flue_gas_f = FromInt(400)
    /\ call.temp_outside_f = FromInt(70)
    /\ result.draft_inwc.m > 0
    /\ theoretical_draft(Zero, call.temp_flue_gas_f, call.temp_outside_f,
                         call.barometric_pressure_inHg) = Zero

\* Along all_options the diameters ascend and the velocities strictly descend.
StrictlyDecreasingVelocity ==
    \A i \in 1..(Len(result.all_options) - 1) :
       /\ Lt(result.all_options[i].diameter_inches,
             result.all_options[i + 1].diameter_inches)
       /\ Gt(result.all_options[i].velocity_fps,
             result.all_options[i + 1].velocity_fps)

\* C20 as stated: for a fixed system, in select_diameter's all_options the
\* velocity is strictly decreasing along the ascending diameters.
C20_VelocityStrictlyDecreasing ==
    Returned("select_diameter") => StrictlyDecreasingVelocity

\* C20, amended: for a fixed system with a flow above 0, in select_diameter's
\* all_options the velocity is positive and strictly decreasing along the
\* ascending diameters; with a flow of 0 the velocity is 0 at every diameter.
C20_VelocityDecreasingForPositiveFlow ==
    Returned("select_diameter")
    => /\ Len(result.all_options) = Len(self.standard_diameters)
       /\ Gt(call.cfm, Zero)
             => /\ StrictlyDecreasingVelocity
                /\ \A i \in 1..Len(result.all_options) :
                      Gt(result.all_options[i].velocity_fps, Zero)
       /\ call.cfm = Zero
             => \A i \in 1..Len(result.all_options) :
                   result.all_options[i].velocity_fps = Zero

\* 500 cfm: the velocity falls from the 3 in. to the 36 in. option.
C20_Witness ==
    /\ Returned("select_diameter")
    /\ call.cfm = FromInt(500)
    /\ Len(result.all_options) = 15
    /\ result.all_options[1].diameter_inches = FromInt(3)
    /\ result.all_options[15].diameter_inches = FromInt(36)
    /\ Gt(result.all_options[1].velocity_fps,
          result.all_options[15].velocity_fps)
    /\ Gt(result.all_options[15].velocity_fps, Zero)

\* The absolute temperatures of t1 < t2 differ by more than four machine
\* epsilons of the lower one.
ResolvedApart(t1, t2) ==
    Gt(Sub(t2, t1), Mul(Eps(4), Add(t1, Lit(45967, 2))))

\* C21 as stated: air_density is strictly decreasing in temperature, for any
\* two temperatures above absolute zero.
C21_StrictlyDecreasing ==
    call.op = "air_density"
    => \A t2 \in DensityTemps :
          Lt(call.temp_f, t2) => Gt(result.rho, air_density(t2))

\* C21, amended: above absolute zero air_density is positive and never
\* increases with temperature, and it strictly decreases between two
\* temperatures whose absolute values differ by more than the rounding of the
\* computation (four machine epsilons).
C21_DecreasingBeyondRounding ==
    call.op = "air_density"
    => /\ Gt(result.rho, Zero)
       /\ \A t2 \in DensityTemps :
             Lt(call.temp_f, t2)
                => /\ Ge(result.rho, air_density(t2))
                   /\ ResolvedApart(call.temp_f, t2)
                         => Gt(result.rho, air_density(t2))

\* The density at 70 F is above the one at 70.05 F and equals, after
\* rounding, the one at 70.0001 F.
C21_Witness ==
    /\ call.op = "air_density"
    /\ call.temp_f = FromInt(70)
    /\ ResolvedApart(call.temp_f, Lit(7005, 2))
    /\ Gt(result.rho, air_density(Lit(7005, 2)))
    /\ result.rho = air_density(Lit(700001, 4))

\* The regression of each fuel kind: a x (b + c / CO2).
Regression(fuel_name, co2_percent) ==
    CASE fuel_name = "natural_gas"
           -> Mul(Lit(705, 3), Add(Lit(159, 3), Div(Lit(1072, 2), co2_percent)))
      [] fuel_name = "lp_gas"
           -> Mul(Lit(704, 3), Add(Lit(144, 3), Div(Lit(1261, 2), co2_percent)))
      [] fuel_name = "oil"
           -> Mul(Lit(72, 2), Add(Lit(12, 2), Div(Lit(144, 1), co2_percent)))

ContainerCalls ==
    {"pressure_loss", "total_pressure_loss", "select_diameter",
     "analyze_system", "calculate_combined_cfm", "analyze_manifold_system",
     "analyze_worst_case_appliance", "complete_multi_appliance_analysis",
     "check_appliance_pressure_limits"}

\* Every list and dictionary the caller passed is, after the call, what the
\* caller passed.
CallerObjectsUnchanged ==
    \A k \in DOMAIN caller : caller[k] = call[k]

\* The same call made again, on the objects as the first call left them.
CalledAgain ==
    CASE call.op = "pressure_loss"
           -> pressure_loss(call.length_ft, call.diameter_inches,
                            call.velocity_fpm, call.temp_f,
                            caller.fittings_dict.items, call.vent_type,
                            call.additional_k, call.additional_pressure_loss)
      [] call.op = "select_diameter"
           -> select_diameter(call.cfm, call.height_ft, call.temp_flue_gas_f,
                              call.temp_outside_f, caller.system_config,
                              call.min_available_draft_inwc,
                              call.barometric_pressure_inHg)
      [] call.op = "analyze_system"
           -> analyze_system(call.cfm, call.diameter_inches, call.height_ft,
                             call.length_ft, call.temp_flue_gas_f,
                             call.temp_outside_f, caller.fittings_dict,
                             call.barometric_pressure_inHg)
      [] call.op = "calculate_combined_cfm"
           -> calculate_combined_cfm(caller.appliances)
      [] call.op = "analyze_manifold_system"
           -> analyze_manifold_system(caller.appliances,
                                      caller.manifold_config,
                                      call.temp_outside_f,
                                      call.operating_scenario)
      [] call.op = "check_appliance_pressure_limits"
           -> check_appliance_pressure_limits(caller.appliance,
                                              call.available_draft)
      [] OTHER -> result

NonNegativeCounts(system_config) ==
    "fittings" \in DOMAIN system_config
       => \A i \in 1..Len(system_config.fittings) :
             system_config.fittings[i][2].m >= 0

\* C24: in select_diameter, for cfm >= 0, length >= 0 and non-negative fitting
\* counts, the pressure loss never rises and the available draft never falls
\* from one standard diameter to the next larger one, so an option that meets
\* the requirement is followed only by options that meet it, and the selected
\* diameter is the one boundary between the options that do not qualify and
\* those that do.
C24_QualificationMonotone ==
    (/\ Returned("select_diameter")
     /\ call.cfm.m >= 0
     /\ call.system_config.length_ft.m >= 0
     /\ NonNegativeCounts(call.system_config))
    => Bind(result.all_options, LAMBDA options :
         /\ \A i \in 1..(Len(options) - 1) :
               /\ Ge(options[i].pressure_loss_inwc,
                     options[i + 1].pressure_loss_inwc)
               /\ Le(options[i].available_draft_inwc,
                     options[i + 1].available_draft_inwc)
               /\ options[i].meets_requirement
                     => options[i + 1].meets_requirement
         /\ "error" \notin DOMAIN result
               => \A i \in 1..Len(options) :
                     options[i].meets_requirement
                        <=> Ge(options[i].diameter_inches,
                               result.diameter_inches))

\* A selection in the middle of the list: every smaller diameter falls
\* short, every larger one qualifies.
C24_Witness ==
    /\ Returned("select_diameter")
    /\ "error" \notin DOMAIN result
    /\ Gt(call.cfm, Zero)
    /\ result.diameter_inches = FromInt(8)
    /\ \A i \in 1..5 : ~result.all_options[i].meets_requirement
    /\ \A i \in 6..15 : result.all_options[i].meets_requirement

\* Position k holds the first appliance of maximal mbh in input order.
IsFirstMaxMbh(appliances, k) ==
    /\ IsMaxMbh(appliances, k)
    /\ \A j \in 1..(k - 1) : Lt(appliances[j].mbh, appliances[k].mbh)

\* The two operating sets split the list at the first appliance of maximal
\* mbh: 'single_largest' is that appliance, 'all_minus_one' the others.
SplitAtFirstMax(appliances, largest, all_minus_one) ==
    \E k \in 1..Len(appliances) :
       /\ IsFirstMaxMbh(appliances, k)
       /\ largest = <<appliances[k]>>
       /\ AllExcept(all_minus_one, appliances, k)

\* C25: for a list of two or more appliances, also when several share the
\* largest mbh, the appliance scenario 'all_minus_one' removes is the one
\* scenario 'single_largest' selects, the first of maximal mbh in input
\* order: the two operating sets share no appliance of the list and together
\* are the whole list.
C25_RemovedIsLargest ==
    /\ (/\ Returned("complete_multi_appliance_analysis")
        /\ Len(call.appliances) >= 2)
          => SplitAtFirstMax(call.appliances,
                result.single_largest.operating_appliances,
                result.all_minus_one.operating_appliances)
    /\ (/\ Returned("analyze_manifold_system")
        /\ Len(call.appliances) >= 2
        /\ call.operating_scenario = "all_minus_one")
          => SplitAtFirstMax(call.appliances,
                Operating(call.appliances, "single_largest"),
                result.operating_appliances)

\* Two different appliances of the same, largest mbh: the first is the single
\* largest, the second is what 'all_minus_one' keeps.
C25_Witness ==
    /\ Returned("complete_multi_appliance_analysis")
    /\ Len(call.appliances) = 2
    /\ call.appliances[1].mbh = call.appliances[2].mbh
    /\ call.appliances[1] # call.appliances[2]
    /\ result.single_largest.operating_appliances = <<call.appliances[1]>>
    /\ result.all_minus_one.operating_appliances = <<call.appliances[2]>>

\* C26: for every non-empty appliance list and every scenario name,
\* analyze_manifold_system returns a scenario result whose operating set is
\* not empty (num_operating >= 1), and the mixing step is never evaluated on
\* an empty operating set, 'all_minus_one' with exactly one appliance
\* included.
C26_OperatingSetNeverEmpty ==
    (/\ call.op = "analyze_manifold_system"
     /\ Len(call.appliances) >= 1)
    => /\ Operating(call.appliances, call.operating_scenario) # <<>>
       /\ ~Raised(result)
       /\ result.num_operating >= 1
       /\ result.operating_appliances # <<>>

\* 'all_minus_one' called with one appliance: the operating set is empty and
\* the mixing step ends in IndexError on appliances[0].
C26_Witness ==
    /\ call.op = "analyze_manifold_system"
    /\ Len(call.appliances) = 1
    /\ call.operating_scenario = "all_minus_one"
    /\ Operating(call.appliances, call.operating_scenario) = <<>>
    /\ calculate_combined_cfm(<<>>) = Raise("IndexError")
    /\ result = Raise("IndexError")

\* Apart from 'all_minus_one' with one appliance, every scenario of a
\* non-empty list returns a result with a non-empty operating set.
C26_EmptyOnlyForAllMinusOneOfOne ==
    (/\ call.op = "analyze_manifold_system"
     /\ Len(call.appliances) >= 1)
    => IF call.operating_scenario = "all_minus_one" /\ Len(call.appliances) = 1
       THEN result = Raise("IndexError")
       ELSE /\ ~Raised(result)
            /\ result.num_operating >= 1

\* C27: for a positive total mass flow, the total_cfm calculate_combined_cfm
\* reports (the total mass flow at the density of the mixed temperature) is
\* the sum of the per-appliance cfm values of appliance_results; the two are
\* equal in exact arithmetic, and here to the rounding of the computation
\* (8 machine epsilons).
C27_TotalCfmIsSumOfCfms ==
    (/\ Returned("calculate_combined_cfm")
     /\ Gt(result.total_mass_flow_lbm_min, Zero))
    => Bind(SumCfm(result.appliance_results, Len(result.appliance_results)),
            LAMBDA summed :
         /\ Gt(summed, Zero)
         /\ Within(result.total_cfm, summed, summed, 8))

\* Three appliances at three temperatures: the total is the sum of the three
\* per-appliance flows up to rounding, and not the flow of any one of them.
C27_Witness ==
    /\ Returned("calculate_combined_cfm")
    /\ Len(call.appliances) = 3
    /\ call.appliances[1].temp_f # call.appliances[2].temp_f
    /\ call.appliances[2].temp_f # call.appliances[3].temp_f
    /\ call.appliances[1].temp_f # call.appliances[3].temp_f
    /\ Within(result.total_cfm, SumCfm(result.appliance_results, 3),
              result.total_cfm, 8)
    /\ Gt(result.total_cfm,
          Add(result.appliance_results[1].cfm, result.appliance_results[2].cfm))

\* Every appliance of the returned breakdown has a positive mass flow.
AllFlowsPositive ==
    /\ Returned("calculate_combined_cfm")
    /\ Len(result.appliance_results) >= 1
    /\ \A i \in 1..Len(result.appliance_results) :
          Gt(result.appliance_results[i].mass_flow_lbm_min, Zero)

\* C28 as stated: when every appliance has a positive mass flow, the mixed
\* temperature lies between the lowest and the highest individual flue
\* temperature, bounds included, and is the single appliance's temperature
\* when the list has one appliance.
C28_MixedTempInRange ==
    AllFlowsPositive
    => /\ \E i \in 1..Len(call.appliances) :
             Le(call.appliances[i].temp_f, result.weighted_avg_temp_f)
       /\ \E i \in 1..Len(call.appliances) :
             Ge(call.appliances[i].temp_f, result.weighted_avg_temp_f)
       /\ Len(call.appliances) = 1
             => result.weighted_avg_temp_f = call.appliances[1].temp_f

\* t plus (k = 1) or minus (k = -1) 4n machine epsilons of its absolute value
Widened(t, n, k) ==
    Add(t, Mul(FromInt(k), Mul(Eps(4 * n), Add(t, Lit(45967, 2)))))

\* C28, amended: when every appliance has a positive mass flow, the mixed
\* temperature lies between the lowest and the highest individual flue
\* temperature up to floating-point rounding (4N machine epsilons of the
\* absolute temperature), and is the single appliance's temperature up to
\* that rounding when the list has one appliance.
C28_MixedTempInRangeWithinRounding ==
    AllFlowsPositive
    => Bind(Len(call.appliances), LAMBDA n :
         /\ \E i \in 1..n :
               Le(Widened(call.appliances[i].temp_f, n, 0 - 1),
                  result.weighted_avg_temp_f)
         /\ \E i \in 1..n :
               Ge(Widened(call.appliances[i].temp_f, n, 1),
                  result.weighted_avg_temp_f)
         /\ n = 1
               => /\ Le(Widened(call.appliances[1].temp_f, 1, 0 - 1),
                        result.weighted_avg_temp_f)
                  /\ Ge(Widened(call.appliances[1].temp_f, 1, 1),
                        result.weighted_avg_temp_f))

\* Two appliances at 400 F and 275 F mix to a temperature strictly between
\* the two.
C28_Witness ==
    /\ AllFlowsPositive
    /\ Len(call.appliances) = 2
    /\ call.appliances[1].temp_f = FromInt(400)
    /\ call.appliances[2].temp_f = FromInt(275)
    /\ Lt(result.weighted_avg_temp_f, FromInt(400))
    /\ Gt(result.weighted_avg_temp_f, FromInt(275))

\* K-value x count of one supplied fitting when only fitting types count.
KTimesCountOfType(item) ==
    IF item[1] \in FittingTypes THEN KTimesCount(item) ELSE Zero

\* The sum of K-value x count over the fitting types among the first n
\* supplied entries.
RECURSIVE SumKOfTypes(_, _)
SumKOfTypes(items, n) ==
    IF n = 0 THEN Zero
    ELSE Add(SumKOfTypes(items, n - 1), KTimesCountOfType(items[n]))

\* C29: pressure_loss counts only fitting types toward sum_k: for every
\* vent type and every fittings dictionary, a key that is not a fitting
\* type, 'base_friction_factor' included, adds nothing to sum_k and does
\* not appear in fitting_breakdown.
C29_OnlyFittingTypesCount ==
    Returned("pressure_loss")
    => Bind(call.fittings_dict.items, LAMBDA items :
         /\ \A i \in 1..Len(items) :
               items[i][1] \notin FittingTypes
                  => items[i][1] \notin BreakdownTypes
         /\ result.sum_k
               = (IF Gt(call.additional_k, Zero)
                  THEN Add(SumKOfTypes(items, Len(items)), call.additional_k)
                  ELSE SumKOfTypes(items, Len(items))))

\* With a UL441 vent, the key 'base_friction_factor' with count 2 beside one
\* 90-degree elbow is listed in the breakdown at K = 0.40 and raises sum_k
\* from 0.75 to 1.55.
C29_Witness ==
    /\ Returned("pressure_loss")
    /\ call.fittings_dict.items = Fittings4
    /\ call.vent_type = UL441
    /\ ~Gt(call.additional_k, Zero)
    /\ "base_friction_factor" \in BreakdownTypes
    /\ result.sum_k = Lit(155, 2)

\* C30: in every analyze_system result the echoed barometric pressure is
\* the one the theoretical draft of the same result was computed with:
\* 29.92 when the caller omits it, otherwise the caller's value, a value of
\* 0 included.
C30_EchoedPressureIsUsedPressure ==
    Returned("analyze_system")
    => /\ result.barometric_pressure_inHg
             = (IF call.barometric_pressure_inHg = None
                THEN Lit(2992, 2)
                ELSE call.barometric_pressure_inHg)
       /\ result.theoretical_draft_inwc
             = theoretical_draft(call.height_ft, call.temp_flue_gas_f,
                                 call.temp_outside_f,
                                 result.barometric_pressure_inHg)

\* A 20 ft chimney analysed at a barometric pressure of 0 reports 29.92
\* beside a theoretical draft of 0.
C30_Witness ==
    /\ Returned("analyze_system")
    /\ call.barometric_pressure_inHg = Zero
    /\ call.height_ft = FromInt(20)
    /\ result.barometric_pressure_inHg = Lit(2992, 2)
    /\ result.theoretical_draft_inwc = Zero

====
